---- MODULE Spec2Model ----
(***************************************************************************)
(* Model of the Router tree of adapt-authoring-server (lib/Router.js) with  *)
(* the request-lifecycle middleware of lib/ServerUtils.js.                  *)
(*                                                                         *)
(* A Router is a node id.  Its fields are functions over the node ids.  The *)
(* native express router of a node is modelled by the sequence of calls     *)
(* made on it (use / post / get / put / patch / delete), which is exactly   *)
(* the order of its layer stack.                                            *)
(***************************************************************************)
EXTENDS Integers, Sequences, FiniteSets, TLC

(* ------------------------------ bounds -------------------------------- *)
\* Router objects in a run, and arguments of one call
MaxRouters == 3
MaxArgs == 2
\* registrations a run stores: children created, routes and middleware pushed
MaxRegistrations == 3
\* entries of the handlers map of a definition given to validateRoute
MaxHandlers == 2
\* observers that can be tapped on a Hook
MaxObservers == 3
\* calls of invoke() and of onInvoke() on the Hook
MaxInvocations == 2
MaxPromises == 1
\* route definitions handed to one registerRoutes call
MaxRegRoutes == 2
\* calls of onReady() on one module
MaxWaits == 3
\* calls of close() on the server module
MaxCloses == 3

(* ------------------------------ values -------------------------------- *)
\* the express application handle: a parent that is not a Router
ExpressApp == 0
\* what a call returns: the receiver, the new child, undefined, or it throws
This == "this"
Child == "child"
Undefined == "undefined"
Threw == "TypeError"

Nodes == 1..MaxRouters

\* functions known to the model; anything else is not a function
RouteHandlers == {"h1", "h2"}
CustomMiddleware == {"m1"}
DefaultRouterMiddleware == <<"addErrorHandler">>
DefaultHandlerMiddleware == <<"addExistenceProps", "handleInternalRoutes">>
Functions ==
  RouteHandlers \cup CustomMiddleware
    \cup {"addErrorHandler", "addExistenceProps", "handleInternalRoutes",
          "debugRequestTime"}
_isFunction(x) == x \in Functions

\* the methods init() registers, in this order
InitMethods == <<"post", "get", "put", "patch", "delete">>
\* property names for which expressRouter[m] is defined
ExpressRouterProps == {"post", "get", "put", "patch", "delete", "all", "use"}
\* handler keys the inputs are drawn from
MethodKeys == {"get", "post", "all", "badmethod"}

\* a handler value: a single value (arr = FALSE, one element) or an array
Single(x) == [arr |-> FALSE, elems |-> <<x>>]
Array(s) == [arr |-> TRUE, elems |-> s]
NoHandler == [arr |-> FALSE, elems |-> <<>>]
NoHandlers == [m \in {} |-> NoHandler]

\* A string that is used as a path is a sequence of tokens: "/" and the names
\* between the slashes, so "/api" is <<"/", "api">> and "users" is <<"users">>.
\* a route definition as passed to addRoute; isNull is a null/undefined argument,
\* hasHandlers = FALSE is a definition without a handlers property, internal =
\* FALSE covers a definition without an internal property
RouteDef(isStr, rt, hasH, hs, int) ==
  [isNull |-> FALSE, routeIsString |-> isStr, route |-> rt,
   hasHandlers |-> hasH, handlers |-> hs, internal |-> int]
NullDef ==
  [isNull |-> TRUE, routeIsString |-> FALSE, route |-> <<>>,
   hasHandlers |-> FALSE, handlers |-> NoHandlers, internal |-> FALSE]

DGet == RouteDef(TRUE, <<"/", "a">>, TRUE, [m \in {"get"} |-> Single("h1")], FALSE)
DInternal ==
  RouteDef(TRUE, <<"/", "b">>, TRUE,
           [m \in {"get", "post"} |->
              IF m = "get" THEN Array(<<"h1", "h2">>) ELSE Single("h2")], TRUE)
DNumericRoute == RouteDef(FALSE, <<"123">>, TRUE, [m \in {"get"} |-> Single("h1")], FALSE)
DNoHandlers == RouteDef(TRUE, <<"/", "a">>, FALSE, NoHandlers, FALSE)
DStringHandler ==
  RouteDef(TRUE, <<"/", "a">>, TRUE, [m \in {"get"} |-> Single("notfn")], FALSE)
DEmptyHandlers == RouteDef(TRUE, <<"/", "a">>, TRUE, NoHandlers, FALSE)

DArrayHandler ==
  RouteDef(TRUE, <<"/", "a">>, TRUE, [m \in {"get"} |-> Array(<<"h1", "h2">>)], FALSE)

\* the definitions validateRoute is tried on
HandlerValues ==
  {Single("h1"), Single("notfn"), Array(<<>>), Array(<<"h1", "h2">>),
   Array(<<"h1", "notfn">>)}
HandlerMaps ==
  UNION {[K -> HandlerValues] : K \in {J \in SUBSET MethodKeys : Cardinality(J) <= MaxHandlers}}
ValidateInputs ==
  {RouteDef(isStr, IF isStr THEN <<"/", "a">> ELSE <<"123">>, hasH,
            IF hasH THEN hs ELSE NoHandlers, FALSE) :
     isStr \in BOOLEAN, hasH \in BOOLEAN, hs \in HandlerMaps}

\* the definitions the router actions draw their arguments from
TreeDefs == {DGet, DInternal, DStringHandler, DEmptyHandlers, NullDef}
ChildRoutes == {<<"users">>}
MiddlewareArgs == {"m1", "notfn"}
\* server.getConfig('host') and the addresses requests come from
Host == "10.0.0.5"
IPs == {Host, "127.0.0.1", "::1", "203.0.113.9"}

SeqsUpTo(S, k) == UNION {[1..i -> S] : i \in 0..k}

\* the trees the read-only operations are tried on: the route of the top
\* router, the routes of the routers below it, and the routes they store
TopRoutes == {<<"/">>, <<"/", "api">>, <<"/", "api", "/">>}
SubRoutes == {<<"v1">>, <<"users">>, <<"/", "users">>}
OneHandler(ms) == [m \in ms |-> Single("h1")]
\* a definition with a meta property (a map from method names to meta objects)
WithMeta(r, meta) == r @@ [meta |-> meta]
QUsersId ==
  WithMeta(RouteDef(TRUE, <<"/", "users", "/", ":id">>, TRUE, OneHandler({"get"}), FALSE),
           [m \in {"get"} |-> "listUsers"])
QUsersMe == RouteDef(TRUE, <<"/", "users", "/", "me">>, TRUE, OneHandler({"post"}), FALSE)
QMe == RouteDef(TRUE, <<"/", "me">>, TRUE, OneHandler({"get"}), FALSE)
QOptId == RouteDef(TRUE, <<"/", ":id?">>, TRUE, OneHandler({"post", "put"}), FALSE)
StoredRouteLists == {<<>>, <<QUsersId, QUsersMe>>, <<QMe, QOptId>>}

VARIABLES
  nRouters,          \* number of Router objects constructed so far
  route,             \* Router.route
  parentRouter,      \* Router.parentRouter (a node or ExpressApp)
  childRouters,      \* Router.childRouters
  routes,            \* Router.routes
  routerMiddleware,  \* Router.routerMiddleware
  handlerMiddleware, \* Router.handlerMiddleware
  initialised,       \* Router._initialised
  expressRouter,     \* calls made on Router.expressRouter, in order
  expressApp,        \* calls made on the express application, in order
  ret,               \* the last call: the operation and what it returned
  initLog,           \* the steps of the last call, if it was init(), in order
  resp,              \* the outcome of the last call, if it was a request
  vrInput,           \* the definition validateRoute is called with
  vrResult,          \* what validateRoute returned for it ("none": not called yet)
  q,                 \* the last read-only call on the tree and what it returned
  errors,            \* App.instance.errors: the registry of known error kinds
  sent,              \* the last res.sendError call and the responses it made
  hookOptions,       \* Hook._options
  hookObservers,     \* Hook._hookObservers
  promiseObservers,  \* Hook._promiseObservers: the promises onInvoke() returned
  untapped,          \* the tapped observers untap() was called with since
  inv,               \* the invocation of the hook: its progress and what was seen
  ex,                \* the request addExistenceProps was called on and what it made of it
  reg,               \* the last registerRoutes call and the calls it made on the auth module
  mod,               \* an AbstractModule: its ready flags, its readyHook and the onReady() promises
  srv                \* the ServerModule: its flags, its HTTP server and how far start() has come

treeVars ==
  <<nRouters, route, parentRouter, childRouters, routes, routerMiddleware,
    handlerMiddleware, initialised, expressRouter, expressApp>>
routerVars == <<treeVars, ret, initLog, resp>>
vrVars == <<vrInput, vrResult>>
qVars == <<q>>
errVars == <<errors, sent>>
hookVars == <<hookOptions, hookObservers, promiseObservers, untapped, inv>>
exVars == <<ex>>
regVars == <<reg>>
modVars == <<mod>>
srvVars == <<srv>>
vars == <<routerVars, vrVars, qVars, errVars, hookVars, exVars, regVars, modVars, srvVars>>
\* what the Router operations, validateRoute, the read-only calls, sendError
\* and the Hook leave alone
utilVars == <<vrVars, qVars, errVars, hookVars, exVars, regVars, modVars, srvVars>>
notVrVars == <<routerVars, qVars, errVars, hookVars, exVars, regVars, modVars, srvVars>>
notQVars == <<routerVars, vrVars, errVars, hookVars, exVars, regVars, modVars, srvVars>>
notErrVars == <<routerVars, vrVars, qVars, hookVars, exVars, regVars, modVars, srvVars>>
notHookVars == <<routerVars, vrVars, qVars, errVars, exVars, regVars, modVars, srvVars>>
notSrvVars == <<routerVars, vrVars, qVars, errVars, hookVars, exVars, regVars, modVars>>
notModVars == <<routerVars, vrVars, qVars, errVars, hookVars, exVars, regVars, srvVars>>
notRegVars == <<routerVars, vrVars, qVars, errVars, hookVars, exVars, modVars, srvVars>>
\* what registerRoutes leaves alone: it stores routes on the router
notRegRoutesVars == <<nRouters, route, parentRouter, childRouters, routerMiddleware, handlerMiddleware, initialised, expressRouter, expressApp, vrVars, qVars, errVars, hookVars, exVars, modVars, srvVars>>
notExVars == <<routerVars, vrVars, qVars, errVars, hookVars, regVars, modVars, srvVars>>

\* no read-only call made yet
NoQuery == [op |-> "none"]

\* An error object: kind is error.constructor.name; code "undefined" is an
\* error without a code; statusCode 0 is an error without a statusCode
ErrorObject(kind, code, statusCode, message, data) ==
  [kind |-> kind, code |-> code, statusCode |-> statusCode, message |-> message,
   data |-> data, error |-> Undefined]
\* the registry as the application loads it
LoadedErrors ==
  [c \in {"NOT_FOUND", "SERVER_ERROR"} |->
     IF c = "NOT_FOUND"
     THEN ErrorObject("AdaptError", c, 404, "not found", Undefined)
     ELSE ErrorObject("AdaptError", c, 500, "server error", Undefined)]
NoSent == [op |-> "none"]
\* no sendError call made yet
SendIdle == errors = LoadedErrors /\ sent = NoSent

\* the observer functions, and the values the code tests for truthiness:
\* undefined (also what a bare throw or Promise.reject() carries) and the
\* Error object an observer throws
ObserverIds == 1..MaxObservers
UndefinedValue == [truthy |-> FALSE, by |-> 0]
ErrorOf(k) == [truthy |-> TRUE, by |-> k]
ReturnOf(k) == [truthy |-> TRUE, by |-> k]
\* new Hook(opts): type defaults to series for a mutable hook, else parallel
Hook(opts) ==
  [type |-> IF opts.type # "unset" THEN opts.type
            ELSE IF opts.mutable = "true" THEN "series" ELSE "parallel",
   mutable |-> opts.mutable = "true"]
HookOpts ==
  [type : {"unset", "parallel", "series"}, mutable : {"unset", "true", "false"}]
\* no invocation yet; obj is the object the caller passes to invoke()
NoInvocation ==
  [id |-> 0, observers |-> <<>>, pc |-> "idle", obj |-> <<>>, seen |-> [k \in ObserverIds |-> <<>>],
   copy |-> [k \in ObserverIds |-> <<>>], started |-> <<>>, pending |-> {},
   idx |-> 0, results |-> [k \in ObserverIds |-> UndefinedValue],
   data |-> <<UndefinedValue>>, error |-> UndefinedValue, outcome |-> "none",
   events |-> <<>>]
\* the values a key of body, params or query can hold, and the containers:
\* an object with some of the keys, or a value that is not truthy
JsNull == "null"
ExKeys == {"a", "b"}
ExValues == {JsNull, Undefined, "0", "bar"}
Obj(entries) == [kind |-> "object", entries |-> entries]
Falsy(kind) == [kind |-> kind, entries |-> <<>>]
Containers ==
  {Falsy(kind) : kind \in {JsNull, Undefined, "false"}}
    \cup {Obj(f) : f \in UNION {[K -> ExValues] : K \in SUBSET ExKeys}}
ExRequests ==
  [method : {"GET", "POST"}, body : Containers, params : Containers, query : Containers]
\* a request addExistenceProps has not been called on: no flag is set
Untouched(req) == [req |-> req, flags |-> <<>>, next |-> 0]
ExIdle == ex = [op |-> "none", req |-> [method |-> "GET", body |-> Obj(<<>>),
                                         params |-> Obj(<<>>), query |-> Obj(<<>>)],
                out |-> Untouched([method |-> "GET", body |-> Obj(<<>>),
                                   params |-> Obj(<<>>), query |-> Obj(<<>>)])]

\* registerRoutes not called
NoReg == [op |-> "none"]
RegIdle == reg = NoReg

\* the onReady() calls, and a module whose init() has not settled yet
WaitIds == 1..MaxWaits
NewModule ==
  [init |-> "pending", _isReady |-> FALSE, _initError |-> UndefinedValue,
   readyHook |-> <<>>,
   waits |-> [w \in WaitIds |-> [state |-> "none", value |-> UndefinedValue]]]
ModIdle == mod = NewModule

\* the promises close() returned: how each stands and what httpServer was
\* when close() was called
CloseIds == 1..MaxCloses
NotClosed == [state |-> "none", at |-> "none"]
\* a ServerModule before init(): no flags, no server; listeningHook counts
\* the observers tapped on it, serverCloses the calls of httpServer.close
NoServer ==
  [pc |-> "none", step |-> 0, isListening |-> FALSE, httpServer |-> Undefined,
   listeningHook |-> 0, thrown |-> Undefined, started |-> "no",
   closes |-> [w \in CloseIds |-> NotClosed], serverCloses |-> 0]
SrvIdle == srv = NoServer

\* a hook with default options, not used
HookIdle ==
  /\ hookOptions = Hook([type |-> "unset", mutable |-> "unset"])
  /\ hookObservers = <<>>
  /\ promiseObservers = <<>>
  /\ untapped = {}
  /\ inv = NoInvocation

Routers == 1..nRouters
IsRouter(x) == x \in Routers

(* --------------------------- Router methods --------------------------- *)

\* a variant that accepts a definition when some entry passes (some for every)
validateRouteSomeEntry(r) ==
  IF ~r.routeIsString THEN FALSE
  ELSE IF ~r.hasHandlers THEN FALSE
  ELSE \E m \in DOMAIN r.handlers :
         /\ m \in ExpressRouterProps
         /\ \A i \in 1..Len(r.handlers[m].elems) : _isFunction(r.handlers[m].elems[i])

\* Router.validateRoute: r is a non-null definition
validateRoute(r) ==
  IF ~r.routeIsString THEN FALSE
  ELSE IF ~r.hasHandlers THEN FALSE
  ELSE \A m \in DOMAIN r.handlers :
         IF m \notin ExpressRouterProps THEN FALSE
         ELSE LET h == r.handlers[m]
              IN  IF ~(~h.arr /\ _isFunction(h.elems[1]))
                     /\ ~(h.arr /\ \A i \in 1..Len(h.elems) : _isFunction(h.elems[i]))
                  THEN FALSE
                  ELSE TRUE

\* a variant that puts the nearer router's stack first
RECURSIVE getHandlerMiddlewareChildFirst(_, _)
getHandlerMiddlewareChildFirst(router, middleware) ==
  IF ~IsRouter(router) THEN middleware
  ELSE getHandlerMiddlewareChildFirst(parentRouter[router],
                                      middleware \o handlerMiddleware[router])

\* Router.getHandlerMiddleware(router, middleware)
RECURSIVE getHandlerMiddleware(_, _)
getHandlerMiddleware(router, middleware) ==
  IF ~IsRouter(router) THEN middleware
  ELSE getHandlerMiddleware(parentRouter[router],
                            handlerMiddleware[router] \o middleware)

Ret(op, v) == [op |-> op, val |-> v]

TotalLen(f) ==
  LET RECURSIVE Sum(_)
      Sum(k) == IF k = 0 THEN 0 ELSE Len(f[k]) + Sum(k - 1)
  IN  Sum(MaxRouters)

(* ------------------------------ init() -------------------------------- *)
\* one call on a native router (a layer of its stack) and its handler chain
ChainFn(name) == [fn |-> name, cfg |-> NullDef, h |-> NoHandler]
Layer(op, path, router, chain) ==
  [op |-> op, path |-> path, router |-> router, chain |-> chain]
Ev(n, step, arg, m) == [node |-> n, step |-> step, arg |-> arg, m |-> m]
\* the functions of a stack as the entries of a chain
ChainFns(s) == [i \in 1..Len(s) |-> ChainFn(s[i])]

\* ServerUtils.cacheRouteConfig(routeConfig): the middleware closes over the route
cacheRouteConfig(routeConfig) ==
  [fn |-> "cacheRouteConfig", cfg |-> routeConfig, h |-> NoHandler]

\* the state init() works on: the native routers, the flags, the log of steps
InitState == [er |-> expressRouter, app |-> expressApp, ini |-> initialised, log |-> <<>>]

\* Router.warnOnInited
warnOnInited(n, S) == [S EXCEPT !.log = Append(@, Ev(n, "warn", 0, ""))]

\* init(): this.expressRouter.use(...this.routerMiddleware)
ApplyRouterMiddleware(n, S) ==
  IF Len(routerMiddleware[n]) > 0
  THEN [S EXCEPT
          !.er[n] = Append(@, Layer("use", <<>>, 0, ChainFns(routerMiddleware[n]))),
          !.log = Append(@, Ev(n, "use", 0, ""))]
  ELSE S

\* a variant that caches the route config after the handler middleware
RouteChainCacheLate(n, r, method) ==
  LET handler ==
        IF method \in DOMAIN r.handlers
        THEN [fn |-> "handler", cfg |-> NullDef, h |-> r.handlers[method]]
        ELSE ChainFn("apiInvalidMethodHandler")
  IN  ChainFns(getHandlerMiddleware(n, <<>>)) \o <<cacheRouteConfig(r)>>
        \o <<handler>>

\* init(): the chain registered for route r and one of the InitMethods
RouteChain(n, r, method) ==
  LET handler ==
        IF method \in DOMAIN r.handlers
        THEN [fn |-> "handler", cfg |-> NullDef, h |-> r.handlers[method]]
        ELSE ChainFn("apiInvalidMethodHandler")
  IN  <<cacheRouteConfig(r)>> \o ChainFns(getHandlerMiddleware(n, <<>>))
        \o <<handler>>

\* init(): this.routes.forEach(r => [methods].forEach(method => ...))
RegisterRoutes(n, S) ==
  LET nm == Len(InitMethods)
      count == nm * Len(routes[n])
      ri(k) == ((k - 1) \div nm) + 1
      mj(k) == ((k - 1) % nm) + 1
  IN  [S EXCEPT
         !.er[n] = @ \o [k \in 1..count |->
                           Layer(InitMethods[mj(k)], routes[n][ri(k)].route, 0,
                                 RouteChain(n, routes[n][ri(k)], InitMethods[mj(k)]))],
         !.log = @ \o [k \in 1..count |-> Ev(n, "route", ri(k), InitMethods[mj(k)])]]

\* init(): add to the parent stack
MountOnParent(n, S) ==
  IF IsRouter(parentRouter[n])
  THEN [S EXCEPT
          !.er[parentRouter[n]] = Append(@, Layer("use", <<"/">> \o route[n], n, <<>>)),
          !.log = Append(@, Ev(n, "mountParent", parentRouter[n], ""))]
  ELSE LET rt == IF route[n] = <<>> \/ route[n][1] # "/"
                 THEN <<"/">> \o route[n] ELSE route[n]
       IN  [S EXCEPT
              !.app = Append(@, Layer("use", rt, n, <<>>)),
              !.log = Append(@, Ev(n, "mountParent", ExpressApp, ""))]

\* init(): this._initialised = true
SetInitialised(n, S) ==
  [S EXCEPT !.ini[n] = TRUE, !.log = Append(@, Ev(n, "initialised", 0, ""))]

RECURSIVE init(_, _)
RECURSIVE InitChildrenFrom(_, _, _)
\* init(): this.childRouters.forEach(r => { r.init(); use(r.route, r.expressRouter) })
InitChildrenFrom(n, i, S) ==
  IF i > Len(childRouters[n]) THEN S
  ELSE LET c == childRouters[n][i]
           S1 == init(c, S)
           S2 == [S1 EXCEPT
                    !.er[n] = Append(@, Layer("use", route[c], c, <<>>)),
                    !.log = Append(@, Ev(n, "mountChild", c, ""))]
       IN  InitChildrenFrom(n, i + 1, S2)
InitChildren(n, S) == InitChildrenFrom(n, 1, S)

\* a variant that registers the own routes before the children are initialised
InitStepsRoutesFirst(n, S) ==
  SetInitialised(n,
    MountOnParent(n,
      InitChildren(n,
        RegisterRoutes(n,
          ApplyRouterMiddleware(n, S)))))

\* init(): the steps of a router that is not initialised yet, in program order
InitSteps(n, S) ==
  SetInitialised(n,
    MountOnParent(n,
      RegisterRoutes(n,
        InitChildren(n,
          ApplyRouterMiddleware(n, S)))))

\* a variant without the _initialised guard
initUnguarded(n, S) == InitSteps(n, S)

\* Router.init
init(n, S) == IF S.ini[n] THEN warnOnInited(n, S) ELSE InitSteps(n, S)

(* ------------------------------ requests ------------------------------ *)
NoError == [code |-> "none", url |-> <<>>, method |-> ""]
Error(code, req) == [code |-> code, url |-> req.originalUrl, method |-> req.method]
\* resp: the layer the request was routed to (router, position), the caller's
\* address, the error passed to next, how often handleInternalRoutes called
\* next(), and the handler that was reached
NoResp ==
  [node |-> 0, layer |-> 0, ip |-> "", error |-> NoError, passed |-> 0, reached |-> "none"]

\* a variant that does not know the IPv6 loopback address
handleInternalRoutesNoV6(req, routeConfig) ==
  LET isInternalIp == Host = req.ip \/ req.ip = "127.0.0.1"
  IN  IF routeConfig.internal /\ ~isInternalIp
      THEN Error("UNAUTHORISED", req)
      ELSE NoError

\* ServerUtils.handleInternalRoutes: the error passed to next, NoError for next()
handleInternalRoutes(req, routeConfig) ==
  LET isInternalIp == Host = req.ip \/ req.ip = "127.0.0.1" \/ req.ip = "::1"
  IN  IF routeConfig.internal /\ ~isInternalIp
      THEN Error("UNAUTHORISED", req)
      ELSE NoError

\* The chain of one route layer run for a request, as express runs it: each
\* function runs when the one before it called next(), and an error passed to
\* next skips the rest of the chain.  st.cfg is req.routeConfig (NullDef: not
\* set); behaviour tells what each custom middleware does with the request.
RECURSIVE RunChain(_, _, _, _, _)
RunChain(chain, i, req, behaviour, st) ==
  IF i > Len(chain) THEN st
  ELSE LET f == chain[i]
       IN  CASE f.fn = "cacheRouteConfig" ->
                  RunChain(chain, i + 1, req, behaviour, [st EXCEPT !.cfg = f.cfg])
             [] f.fn = "addExistenceProps" ->
                  RunChain(chain, i + 1, req, behaviour, st)
             [] f.fn = "handleInternalRoutes" ->
                  IF st.cfg.isNull
                  THEN [st EXCEPT !.error = Error("TypeError", req)]
                  ELSE LET e == handleInternalRoutes(req, st.cfg)
                       IN  IF e = NoError
                           THEN RunChain(chain, i + 1, req, behaviour,
                                         [st EXCEPT !.passed = @ + 1])
                           ELSE [st EXCEPT !.error = e]
             [] f.fn \in CustomMiddleware ->
                  IF behaviour[f.fn] = "next"
                  THEN RunChain(chain, i + 1, req, behaviour, st)
                  ELSE [st EXCEPT !.error = Error("custom", req)]
             [] OTHER -> [st EXCEPT !.reached = f.fn]

\* a request that express routes to layer k of router n
Request(n, k, ip, behaviour) ==
  LET layer == expressRouter[n][k]
      req == [method |-> layer.op, originalUrl |-> layer.path, ip |-> ip]
      st == RunChain(layer.chain, 1, req, behaviour,
                     [cfg |-> NullDef, error |-> NoError, passed |-> 0, reached |-> "none"])
  IN  /\ layer.op # "use"
      /\ resp' = [node |-> n, layer |-> k, ip |-> ip,
                  error |-> st.error, passed |-> st.passed, reached |-> st.reached]
      /\ ret' = Ret("request", Undefined)
      /\ initLog' = <<>>
      /\ UNCHANGED treeVars

(* ------------------------------ actions ------------------------------- *)
\* what the run has stored so far, beyond the first router and the defaults
Registrations ==
  (nRouters - 1) + TotalLen(routes)
    + (TotalLen(routerMiddleware) + TotalLen(handlerMiddleware)
         - nRouters * (Len(DefaultRouterMiddleware) + Len(DefaultHandlerMiddleware)))

\* a variant that leaves the new router without its parent
ConstructOrphan(c, r, parent) ==
  /\ nRouters' = c
  /\ route' = [route EXCEPT ![c] = r]
  /\ parentRouter' = [parentRouter EXCEPT ![c] = ExpressApp]
  /\ routes' = [routes EXCEPT ![c] = <<>>]
  /\ routerMiddleware' = [routerMiddleware EXCEPT ![c] = DefaultRouterMiddleware]
  /\ handlerMiddleware' = [handlerMiddleware EXCEPT ![c] = DefaultHandlerMiddleware]
  /\ initialised' = [initialised EXCEPT ![c] = FALSE]
  /\ expressRouter' = [expressRouter EXCEPT ![c] = <<>>]
\* new Router(route) followed by router.parentRouter = parent
Construct(c, r, parent) ==
  /\ nRouters' = c
  /\ route' = [route EXCEPT ![c] = r]
  /\ parentRouter' = [parentRouter EXCEPT ![c] = parent]
  /\ routes' = [routes EXCEPT ![c] = <<>>]
  /\ routerMiddleware' = [routerMiddleware EXCEPT ![c] = DefaultRouterMiddleware]
  /\ handlerMiddleware' = [handlerMiddleware EXCEPT ![c] = DefaultHandlerMiddleware]
  /\ initialised' = [initialised EXCEPT ![c] = FALSE]
  /\ expressRouter' = [expressRouter EXCEPT ![c] = <<>>]

\* a variant that adds the child whether the router is initialised or not
CreateChildRouterAfterInit(n, r) ==
  /\ nRouters < MaxRouters
  /\ Registrations < MaxRegistrations
  /\ Construct(nRouters + 1, r, n)
  /\ childRouters' = [childRouters EXCEPT ![n] = Append(@, nRouters + 1)]
  /\ ret' = Ret("createChildRouter", Child)
  /\ initLog' = <<>>
  /\ resp' = NoResp
  /\ UNCHANGED expressApp
\* Router.createChildRouter(route)
CreateChildRouter(n, r) ==
  IF initialised[n]
  THEN /\ ret' = Ret("createChildRouter", This)
       /\ initLog' = <<>>
       /\ resp' = NoResp
       /\ UNCHANGED treeVars
  ELSE /\ nRouters < MaxRouters
       /\ Registrations < MaxRegistrations
       /\ Construct(nRouters + 1, r, n)
       /\ childRouters' = [childRouters EXCEPT ![n] = Append(@, nRouters + 1)]
       /\ ret' = Ret("createChildRouter", Child)
       /\ initLog' = <<>>
       /\ resp' = NoResp
       /\ UNCHANGED expressApp

\* Router.addRoute(...route)
AddRoute(n, args) ==
  IF \E i \in 1..Len(args) : args[i].isNull
  THEN \* route.map(r => r.route) reads a property of null
       /\ ret' = Ret("addRoute", Threw)
       /\ initLog' = <<>>
       /\ resp' = NoResp
       /\ UNCHANGED treeVars
  ELSE /\ initialised[n] \/ Registrations + Len(args) <= MaxRegistrations
       /\ routes' = IF ~initialised[n] /\ Len(args) > 0
                    THEN [routes EXCEPT ![n] = @ \o SelectSeq(args, validateRoute)]
                    ELSE routes
       /\ ret' = Ret("addRoute", This)
       /\ initLog' = <<>>
       /\ resp' = NoResp
       /\ UNCHANGED <<nRouters, route, parentRouter, childRouters, routerMiddleware,
                      handlerMiddleware, initialised, expressRouter, expressApp>>

\* Router._addMiddleware(stack, ...func): the result of warnOnInited is not used
_addMiddleware(stack, func) ==
  IF Len(func) > 0 THEN stack \o SelectSeq(func, _isFunction) ELSE stack

\* Router.addMiddleware(...func)
AddMiddleware(n, func) ==
  /\ Registrations + Len(func) <= MaxRegistrations
  /\ routerMiddleware' =
       [routerMiddleware EXCEPT ![n] = _addMiddleware(routerMiddleware[n], func)]
  /\ ret' = Ret("addMiddleware", This)
  /\ initLog' = <<>>
  /\ resp' = NoResp
  /\ UNCHANGED <<nRouters, route, parentRouter, childRouters, routes,
                 handlerMiddleware, initialised, expressRouter, expressApp>>

\* Router.addHandlerMiddleware(...func)
AddHandlerMiddleware(n, func) ==
  /\ Registrations + Len(func) <= MaxRegistrations
  /\ handlerMiddleware' =
       [handlerMiddleware EXCEPT ![n] = _addMiddleware(handlerMiddleware[n], func)]
  /\ ret' = Ret("addHandlerMiddleware", This)
  /\ initLog' = <<>>
  /\ resp' = NoResp
  /\ UNCHANGED <<nRouters, route, parentRouter, childRouters, routes,
                 routerMiddleware, initialised, expressRouter, expressApp>>

\* a call of Router.init() from outside
RouterInit(n) ==
  LET S == init(n, InitState)
  IN  /\ expressRouter' = S.er
      /\ expressApp' = S.app
      /\ initialised' = S.ini
      /\ initLog' = S.log
      /\ ret' = Ret("init", Undefined)
      /\ resp' = NoResp
      /\ UNCHANGED <<nRouters, route, parentRouter, childRouters, routes,
                     routerMiddleware, handlerMiddleware>>

\* new Router('/api', expressApp): one router mounted on the express application
Init ==
  /\ nRouters = 1
  /\ route = [n \in Nodes |-> IF n = 1 THEN <<"/", "api">> ELSE <<>>]
  /\ parentRouter = [n \in Nodes |-> ExpressApp]
  /\ childRouters = [n \in Nodes |-> <<>>]
  /\ routes = [n \in Nodes |-> <<>>]
  /\ routerMiddleware = [n \in Nodes |-> IF n = 1 THEN DefaultRouterMiddleware ELSE <<>>]
  /\ handlerMiddleware = [n \in Nodes |-> IF n = 1 THEN DefaultHandlerMiddleware ELSE <<>>]
  /\ initialised = [n \in Nodes |-> FALSE]
  /\ expressRouter = [n \in Nodes |-> <<>>]
  /\ expressApp = <<>>
  /\ ret = Ret("new", This)
  /\ initLog = <<>>
  /\ resp = NoResp
  /\ vrInput = DGet
  /\ vrResult = "none"
  /\ q = NoQuery
  /\ SendIdle
  /\ SrvIdle
  /\ ModIdle
  /\ RegIdle
  /\ ExIdle
  /\ HookIdle

Next ==
  \/ \E n \in Routers, r \in ChildRoutes :
       CreateChildRouter(n, r) /\ UNCHANGED utilVars
  \/ \E n \in Routers, args \in SeqsUpTo(TreeDefs, MaxArgs) :
       AddRoute(n, args) /\ UNCHANGED utilVars
  \/ \E n \in Routers, func \in SeqsUpTo(MiddlewareArgs, MaxArgs) :
       AddMiddleware(n, func) /\ UNCHANGED utilVars
  \/ \E n \in Routers, func \in SeqsUpTo(MiddlewareArgs, MaxArgs) :
       AddHandlerMiddleware(n, func) /\ UNCHANGED utilVars
  \/ \E n \in Routers :
       RouterInit(n) /\ UNCHANGED utilVars
  \/ \E n \in Routers, ip \in IPs, behaviour \in [CustomMiddleware -> {"next", "error"}] :
       \E k \in 1..Len(expressRouter[n]) :
         Request(n, k, ip, behaviour) /\ UNCHANGED utilVars

Spec == Init /\ [][Next]_vars

(* ------------------- validateRoute on its own inputs ------------------ *)
\* router.validateRoute(r) for a definition r
Validate ==
  /\ vrResult = "none"
  /\ vrResult' = IF validateRoute(vrInput) THEN "true" ELSE "false"
  /\ UNCHANGED vrInput
  /\ UNCHANGED notVrVars

\* the next definition to try
NextInput ==
  /\ vrResult # "none"
  /\ vrInput' \in ValidateInputs
  /\ vrResult' = "none"
  /\ UNCHANGED notVrVars

ValidateInit ==
  /\ nRouters = 1
  /\ route = [n \in Nodes |-> IF n = 1 THEN <<"/", "api">> ELSE <<>>]
  /\ parentRouter = [n \in Nodes |-> ExpressApp]
  /\ childRouters = [n \in Nodes |-> <<>>]
  /\ routes = [n \in Nodes |-> <<>>]
  /\ routerMiddleware = [n \in Nodes |-> IF n = 1 THEN DefaultRouterMiddleware ELSE <<>>]
  /\ handlerMiddleware = [n \in Nodes |-> IF n = 1 THEN DefaultHandlerMiddleware ELSE <<>>]
  /\ initialised = [n \in Nodes |-> FALSE]
  /\ expressRouter = [n \in Nodes |-> <<>>]
  /\ expressApp = <<>>
  /\ ret = Ret("new", This)
  /\ initLog = <<>>
  /\ resp = NoResp
  /\ vrInput \in ValidateInputs
  /\ vrResult = "none"
  /\ q = NoQuery
  /\ SendIdle
  /\ SrvIdle
  /\ ModIdle
  /\ RegIdle
  /\ ExIdle
  /\ HookIdle

ValidateNext == Validate \/ NextInput

ValidateSpec == ValidateInit /\ [][ValidateNext]_vars

(* ------------------------------ claims -------------------------------- *)
RouteArgs == SeqsUpTo(TreeDefs, MaxArgs)
FuncArgs == SeqsUpTo(MiddlewareArgs, MaxArgs)
Range(s) == {s[i] : i \in 1..Len(s)}

\* C1: once init() has completed on a router, every addRoute and every
\* createChildRouter call on it leaves routes and childRouters as they were and
\* returns the router itself, whatever the arguments.
C1_FrozenRoutesAndChildren ==
  [][\A n \in Routers : initialised[n] =>
       /\ \A args \in RouteArgs :
            AddRoute(n, args) =>
              routes' = routes /\ childRouters' = childRouters /\ ret'.val = This
       /\ \A r \in ChildRoutes :
            CreateChildRouter(n, r) =>
              /\ routes' = routes /\ childRouters' = childRouters
              /\ nRouters' = nRouters /\ ret'.val = This]_vars

\* C2: once init() has completed on a router, addMiddleware and
\* addHandlerMiddleware leave routerMiddleware and handlerMiddleware as they
\* were when init() ran and return the router.
C2_FrozenMiddleware ==
  [][\A n \in Routers : initialised[n] =>
       \A func \in FuncArgs :
         (AddMiddleware(n, func) \/ AddHandlerMiddleware(n, func)) =>
           /\ routerMiddleware' = routerMiddleware
           /\ handlerMiddleware' = handlerMiddleware
           /\ ret'.val = This]_vars

\* C3: init() on a router that is already initialised only warns: it applies
\* no middleware, registers no route, mounts nothing and changes no field.
C3_InitIdempotent ==
  [][\A n \in Routers :
       (initialised[n] /\ RouterInit(n)) =>
         /\ UNCHANGED treeVars
         /\ initLog' = <<Ev(n, "warn", 0, "")>>]_vars
C3_Witness ==
  /\ ret.op = "init"
  /\ \E n \in Routers :
       /\ initLog = <<Ev(n, "warn", 0, "")>>
       /\ initialised[n]
       /\ Len(expressRouter[n]) > 1

\* the methods of HTTP among the names the native router answers to
HttpMethods == {"post", "get", "put", "patch", "delete"}
DataModelInvariant(r) ==
  /\ r.routeIsString
  /\ r.hasHandlers
  /\ DOMAIN r.handlers # {}
  /\ \A m \in DOMAIN r.handlers :
       /\ m \in HttpMethods
       /\ LET h == r.handlers[m]
          IN  /\ Len(h.elems) > 0
              /\ \A i \in 1..Len(h.elems) : h.elems[i] \in Functions

\* C7: every route definition stored in a router's routes has a string route,
\* a non-empty handlers map with only HTTP method names as keys, and as values
\* only single functions or non-empty arrays of functions.
C7_StoredRoutesWellFormed ==
  \A n \in Routers : \A i \in 1..Len(routes[n]) : DataModelInvariant(routes[n][i])

\* what the claims call a valid definition
AcceptedByContract(r) ==
  /\ ~r.isNull
  /\ r.routeIsString
  /\ r.hasHandlers
  /\ \A m \in DOMAIN r.handlers :
       /\ m \in ExpressRouterProps
       /\ \A i \in 1..Len(r.handlers[m].elems) : r.handlers[m].elems[i] \in Functions

\* C9: addRoute on a router that is not initialised never throws: it appends
\* the valid definitions in argument order after the routes already stored,
\* drops the others and returns the router.
C9_AddRouteNeverThrows ==
  [][\A n \in Routers : ~initialised[n] =>
       \A args \in RouteArgs :
         AddRoute(n, args) =>
           /\ ret'.val = This
           /\ routes'[n] = routes[n] \o SelectSeq(args, AcceptedByContract)
           /\ \A m \in Routers \ {n} : routes'[m] = routes[m]]_vars

\* the Router ancestors of n from the topmost one down to n itself
RECURSIVE AncestorChain(_)
AncestorChain(n) ==
  IF parentRouter[n] \in Routers THEN Append(AncestorChain(parentRouter[n]), n) ELSE <<n>>
RECURSIVE ConcatStacks(_, _)
ConcatStacks(stack, nodes) ==
  IF nodes = <<>> THEN <<>> ELSE stack[Head(nodes)] \o ConcatStacks(stack, Tail(nodes))

Has(e) == e \in Range(initLog)
Pos(e) == CHOOSE i \in 1..Len(initLog) : initLog[i] = e
InitialisedNow(m) == Has(Ev(m, "initialised", 0, ""))
FiveMethods == <<"post", "get", "put", "patch", "delete">>
OwnSteps(m) == LET Own(e) == e.node = m IN SelectSeq(initLog, Own)
ExpectedSteps(m) ==
  (IF routerMiddleware[m] # <<>> THEN <<Ev(m, "use", 0, "")>> ELSE <<>>)
    \o [i \in 1..Len(childRouters[m]) |-> Ev(m, "mountChild", childRouters[m][i], "")]
    \o [k \in 1..(5 * Len(routes[m])) |->
          Ev(m, "route", ((k - 1) \div 5) + 1, FiveMethods[((k - 1) % 5) + 1])]
    \o <<Ev(m, "mountParent", parentRouter[m], ""), Ev(m, "initialised", 0, "")>>

\* C4: within one init() of a router the steps are, in this order: router
\* middleware applied; each child, in childRouters order, initialised and then
\* mounted; the own routes registered in routes order with post, get, put,
\* patch, delete; the mount into the parent; _initialised set.  Every step of a
\* child lies between the mount of the child before it and its own mount.
C4_InitOrder ==
  \A m \in Routers : InitialisedNow(m) =>
    /\ OwnSteps(m) = ExpectedSteps(m)
    /\ \A i \in 1..Len(childRouters[m]) :
         LET c == childRouters[m][i]
             mounted == Pos(Ev(m, "mountChild", c, ""))
             after == IF i > 1 THEN Pos(Ev(m, "mountChild", childRouters[m][i - 1], ""))
                      ELSE IF routerMiddleware[m] # <<>> THEN Pos(Ev(m, "use", 0, ""))
                      ELSE 0
         IN  /\ Has(Ev(c, "initialised", 0, "")) \/ Has(Ev(c, "warn", 0, ""))
             /\ \A p \in 1..Len(initLog) :
                  initLog[p].node = c => after < p /\ p < mounted
             /\ \A p \in 1..Len(initLog) :
                  (initLog[p].node = m /\ initLog[p].step = "route") => mounted < p
C4_Witness ==
  /\ ret.op = "init"
  /\ \E m \in Routers :
       /\ InitialisedNow(m)
       /\ Len(childRouters[m]) = 2
       /\ Len(routes[m]) = 1
       /\ \A i \in 1..2 : InitialisedNow(childRouters[m][i])

(* the chain of a route layer *)
RouteLayers(m) == LET IsRoute(l) == l.op # "use" IN SelectSeq(expressRouter[m], IsRoute)
ExpectedChain(m, r, method) ==
  <<[fn |-> "cacheRouteConfig", cfg |-> r, h |-> NoHandler]>>
    \o ChainFns(ConcatStacks(handlerMiddleware, AncestorChain(m)))
    \o <<IF method \in DOMAIN r.handlers
         THEN [fn |-> "handler", cfg |-> NullDef, h |-> r.handlers[method]]
         ELSE ChainFn("apiInvalidMethodHandler")>>

\* C5: for every stored route and each of post, get, put, patch, delete the
\* chain init() registers is the config-caching middleware of that route, then
\* the ancestor-ordered handler middleware of the router, then the handler of
\* the method or else the method-not-implemented fallback; so no handler
\* middleware ever runs without req.routeConfig.
C5_RouteChain ==
  /\ \A m \in Routers : InitialisedNow(m) =>
       /\ Len(RouteLayers(m)) = 5 * Len(routes[m])
       /\ \A i \in 1..Len(routes[m]) : \A j \in 1..5 :
            LET layer == RouteLayers(m)[5 * (i - 1) + j]
            IN  /\ layer.op = FiveMethods[j]
                /\ layer.path = routes[m][i].route
                /\ layer.chain = ExpectedChain(m, routes[m][i], FiveMethods[j])
  /\ resp.error.code # "TypeError"
C5_Witness ==
  /\ ret.op = "init"
  /\ \E m \in Routers :
       /\ InitialisedNow(m)
       /\ parentRouter[m] \in Routers
       /\ handlerMiddleware[parentRouter[m]] = DefaultHandlerMiddleware \o <<"m1">>
       /\ routes[m] = <<DInternal>>
       /\ RouteLayers(m)[2].chain =
            <<cacheRouteConfig(DInternal)>>
              \o ChainFns(DefaultHandlerMiddleware \o <<"m1">> \o DefaultHandlerMiddleware)
              \o <<[fn |-> "handler", cfg |-> NullDef, h |-> Array(<<"h1", "h2">>)]>>
       /\ RouteLayers(m)[3].chain[Len(RouteLayers(m)[3].chain)].fn
            = "apiInvalidMethodHandler"

(* internal routes *)
\* the stored route that layer k of router n's native router was registered for
RouteOfLayer(n, k) ==
  routes[n][((Cardinality({j \in 1..k : expressRouter[n][j].op # "use"}) - 1) \div 5) + 1]
InternalIPs == {Host, "127.0.0.1", "::1"}

\* C6: a request to a route that declares internal: true passes the check only
\* from the configured host, 127.0.0.1 or ::1; from any other address next is
\* called with UNAUTHORISED carrying the requested URL and method and the
\* handler is not reached.  A route without internal: true is never rejected.
C6_InternalRoutes ==
  ret.op = "request" =>
    LET layer == expressRouter[resp.node][resp.layer]
        r == RouteOfLayer(resp.node, resp.layer)
    IN  /\ (r.internal /\ resp.ip \notin InternalIPs) =>
             /\ resp.error = [code |-> "UNAUTHORISED", url |-> layer.path,
                              method |-> layer.op]
             /\ resp.reached = "none"
        /\ (r.internal /\ resp.ip \in InternalIPs) =>
             /\ resp.error.code # "UNAUTHORISED"
             /\ resp.passed > 0
             /\ resp.error.code = "none" => resp.reached # "none"
        /\ ~r.internal => resp.error.code # "UNAUTHORISED"
C6_Witness ==
  /\ ret.op = "request"
  /\ RouteOfLayer(resp.node, resp.layer) = DInternal
  /\ resp.ip = "203.0.113.9"
  /\ resp.error.code = "UNAUTHORISED"
  /\ resp.reached = "none"

\* C8: validateRoute(r) is true exactly when r.route is a string, r.handlers is
\* present and every entry of r.handlers has a method the native router knows
\* and a value that is a function or an array of functions only; a numeric
\* route, a missing handlers map and a string handler are rejected and an array
\* of functions is accepted.
C8_ValidateRoute ==
  vrResult # "none" =>
    /\ (vrResult = "true") <=> AcceptedByContract(vrInput)
    /\ vrInput \in {DNumericRoute, DNoHandlers, DStringHandler} => vrResult = "false"
    /\ vrInput = DArrayHandler => vrResult = "true"
C8_Witness ==
  /\ vrResult = "false"
  /\ vrInput.routeIsString
  /\ vrInput.hasHandlers
  /\ DOMAIN vrInput.handlers = {"get", "post"}
  /\ vrInput.handlers["get"] = Array(<<"h1", "h2">>)
  /\ vrInput.handlers["post"] = Single("notfn")

(* --------------------- read-only calls on a tree ---------------------- *)
RECURSIVE path(_)
\* a variant that puts a separator before every route
pathAlwaysSeparator(n) ==
  LET p == IF IsRouter(parentRouter[n]) THEN path(parentRouter[n]) ELSE <<>>
  IN  p \o <<"/">> \o route[n]

\* Router.path: p[p.length - 1] and this.route[0] are undefined for ''
path(n) ==
  LET p == IF IsRouter(parentRouter[n]) THEN path(parentRouter[n]) ELSE <<>>
      last == IF p = <<>> THEN Undefined ELSE p[Len(p)]
      first == IF route[n] = <<>> THEN Undefined ELSE route[n][1]
  IN  IF last # "/" /\ first # "/" THEN p \o <<"/">> \o route[n] ELSE p \o route[n]

RECURSIVE flattenRouters(_)
\* a variant that pushes each child without flattening it
flattenRoutersNoRecursion(router) ==
  <<router>> \o childRouters[router]

\* Router.flattenRouters: reduce over childRouters starting from [router]
flattenRouters(router) ==
  LET RECURSIVE Reduce(_, _)
      Reduce(a, i) ==
        IF i > Len(childRouters[router]) THEN a
        ELSE Reduce(a \o flattenRouters(childRouters[router][i]), i + 1)
  IN  Reduce(<<router>>, 1)

\* the base URL of the server, one token
ServerUrl == <<"http://localhost:5000">>
\* Router.url: '' when the server module cannot be resolved
url(n, resolved) == IF resolved THEN ServerUrl \o path(n) ELSE <<>>

\* r.root of a Router: the class sets route, routes, expressRouter,
\* parentRouter, childRouters and the middleware stacks, and no root
root(n) == Undefined
\* how a call ends: with a value, or by throwing
Returned(v) == [threw |-> FALSE, value |-> v]
Thrown(e) == [threw |-> TRUE, value |-> e]
\* `${x}`: undefined is printed as the word undefined
Str(x) == IF x = Undefined THEN <<"undefined">> ELSE x

\* the empty object and the empty map
EmptyObject == "{}"
EmptyMap == [k \in {} |-> <<>>]

\* getEndpoints(r)
getEndpoints(r, resolved) ==
  [i \in 1..Len(routes[r]) |->
     LET rt == routes[r][i]
     IN  [url |-> url(r, resolved) \o rt.route,
          accepted_methods |->
            [m \in DOMAIN rt.handlers |->
               IF "meta" \in DOMAIN rt /\ m \in DOMAIN rt.meta
               THEN rt.meta[m] ELSE EmptyObject]]]

\* getRelativeRoute(relFrom, relTo)
getRelativeRoute(relFrom, relTo) ==
  IF relFrom = relTo THEN route[relFrom] \o <<"_">>
  ELSE LET RECURSIVE Up(_, _)
           Up(r, acc) ==
             IF r = relFrom THEN acc
             ELSE Up(parentRouter[r], Str(root(r)) \o <<"_">> \o acc)
       IN  Up(relTo, <<>>)

\* flat.sort((a, b) => a.root.localeCompare(b.root)): with two routers or
\* more the comparator runs and reads localeCompare of a.root, which throws
\* when a.root is undefined; one router is returned without a comparison
sortByRoot(flat) ==
  IF Len(flat) >= 2 /\ \E i \in 1..Len(flat) : root(flat[i]) = Undefined
  THEN Thrown(Threw)
  ELSE Returned(flat)

\* generateRouterMap(topRouter): the map from keys to endpoint lists
generateRouterMap(topRouter, resolved) ==
  LET sorted == sortByRoot(flattenRouters(topRouter))
      RECURSIVE Reduce(_, _)
      Reduce(m, i) ==
        IF i > Len(sorted.value) THEN m
        ELSE LET r == sorted.value[i]
                 key == getRelativeRoute(topRouter, r) \o <<"endpoints">>
                 endpoints == getEndpoints(r, resolved)
             IN  Reduce(IF Len(endpoints) > 0
                        THEN [k \in DOMAIN m \cup {key} |->
                                IF k = key THEN endpoints ELSE m[k]]
                        ELSE m, i + 1)
  IN  IF sorted.threw THEN sorted ELSE Returned(Reduce(EmptyMap, 1))

\* method.toUpperCase()
toUpperCase(m) ==
  CASE m = "get" -> "GET" [] m = "post" -> "POST" [] m = "put" -> "PUT"
    [] m = "patch" -> "PATCH" [] m = "delete" -> "DELETE" [] m = "all" -> "ALL"
    [] m = "use" -> "USE" [] m = "GET" -> "GET" [] m = "POST" -> "POST"
    [] m = "DELETE" -> "DELETE"

\* `${r.path !== '/' ? r.path : ''}${route.route}`
fullPath(r, rt) == (IF path(r) # <<"/">> THEN path(r) ELSE <<>>) \o rt.route

\* a variant that starts a new method set for a path that is already there
setMethodsOverwrite(routeMap, fp, methods) ==
  IF \E i \in 1..Len(routeMap) : routeMap[i].path = fp
  THEN [i \in 1..Len(routeMap) |->
          IF routeMap[i].path = fp THEN [path |-> fp, methods |-> methods]
          ELSE routeMap[i]]
  ELSE Append(routeMap, [path |-> fp, methods |-> methods])

\* one route of getAllRoutes: the Map keeps its entries in insertion order, so
\* it is a sequence of [path, methods]; a new path is appended with an empty
\* set, then the methods are added to the set of the path
setMethods(routeMap, fp, methods) ==
  IF \E i \in 1..Len(routeMap) : routeMap[i].path = fp
  THEN [i \in 1..Len(routeMap) |->
          IF routeMap[i].path = fp
          THEN [path |-> fp, methods |-> routeMap[i].methods \cup methods]
          ELSE routeMap[i]]
  ELSE Append(routeMap, [path |-> fp, methods |-> methods])

\* getAllRoutes(router)
getAllRoutes(router) ==
  LET flat == flattenRouters(router)
      RECURSIVE EachRoute(_, _, _)
      EachRoute(routeMap, r, i) ==
        IF i > Len(routes[r]) THEN routeMap
        ELSE EachRoute(setMethods(routeMap, fullPath(r, routes[r][i]),
                                  {toUpperCase(m) : m \in DOMAIN routes[r][i].handlers}),
                       r, i + 1)
      RECURSIVE EachRouter(_, _)
      EachRouter(routeMap, k) ==
        IF k > Len(flat) THEN routeMap
        ELSE EachRouter(EachRoute(routeMap, flat[k], 1), k + 1)
  IN  EachRouter(<<>>, 1)

\* the requests the method-not-allowed middleware is tried on
RequestMethods == {"GET", "POST", "DELETE"}
RequestPaths ==
  {<<"/", "api", "/", "users", "/", "me">>, <<"/", "api", "/", "users", "/", "7">>,
   <<"/", "api", "/", "users">>, <<"/", "users", "/", "me">>, <<"/", "unknown">>}

\* The pattern compiled from a path: "/:name?" becomes the optional group
\* (?:/([^/]+))?, then ":name" becomes ([^/]+); every other token stays as it is
IsOptionalParam(t) == t \in {":id?"}
IsParam(t) == t \in {":id"}
RECURSIVE pathPattern(_)
pathPattern(p) ==
  IF p = <<>> THEN <<>>
  ELSE IF Len(p) >= 2 /\ p[1] = "/" /\ IsOptionalParam(p[2])
       THEN <<"(?:/([^/]+))?">> \o pathPattern(SubSeq(p, 3, Len(p)))
  ELSE IF IsParam(p[1]) THEN <<"([^/]+)">> \o pathPattern(Tail(p))
  ELSE <<p[1]>> \o pathPattern(Tail(p))

\* new RegExp(`^${pathPattern}$`).test(s): pattern from position i, s from j
RECURSIVE regexTest(_, _, _, _)
regexTest(pat, i, s, j) ==
  IF i > Len(pat) THEN j > Len(s)
  ELSE CASE pat[i] = "([^/]+)" ->
              j <= Len(s) /\ s[j] # "/" /\ regexTest(pat, i + 1, s, j + 1)
         [] pat[i] = "(?:/([^/]+))?" ->
              \/ regexTest(pat, i + 1, s, j)
              \/ /\ j + 1 <= Len(s)
                 /\ s[j] = "/"
                 /\ s[j + 1] # "/"
                 /\ regexTest(pat, i + 1, s, j + 2)
         [] OTHER ->
              j <= Len(s) /\ s[j] = pat[i] /\ regexTest(pat, i + 1, s, j + 1)

\* Array.from(methods).sort().join(', ')
MethodsInOrder == <<"DELETE", "GET", "PATCH", "POST", "PUT">>
RECURSIVE joinSorted(_, _)
joinSorted(methods, k) ==
  IF k > Len(MethodsInOrder) THEN <<>>
  ELSE LET rest == joinSorted(methods, k + 1)
       IN  IF MethodsInOrder[k] \notin methods THEN rest
           ELSE IF rest = <<>> THEN <<MethodsInOrder[k]>>
           ELSE <<MethodsInOrder[k], ", ">> \o rest

\* App.instance.errors.METHOD_NOT_ALLOWED.setData({ endpoint, method, allowedMethods })
MethodNotAllowed(req, allowedMethods) ==
  [code |-> "METHOD_NOT_ALLOWED", endpoint |-> req.originalUrl, method |-> req.method,
   allowedMethods |-> allowedMethods]
\* next() with no argument
NextNoArg == [code |-> "none", endpoint |-> <<>>, method |-> "", allowedMethods |-> <<>>]

RECURSIVE scanPatterns(_, _, _)
\* the middleware returned by methodNotAllowedHandler: the calls of next it makes
scanPatterns(routePatterns, k, req) ==
  IF k > Len(routePatterns) THEN <<NextNoArg>>
  ELSE IF regexTest(routePatterns[k].regex, 1, req.path, 1)
       THEN IF toUpperCase(req.method) \notin routePatterns[k].methods
            THEN <<MethodNotAllowed(req, joinSorted(routePatterns[k].methods, 1))>>
            ELSE <<NextNoArg>>
  ELSE scanPatterns(routePatterns, k + 1, req)

\* ServerUtils.methodNotAllowedHandler(router), applied to a request
methodNotAllowedHandler(router, req) ==
  LET routeMap == getAllRoutes(router)
      routePatterns ==
        [i \in 1..Len(routeMap) |->
           [regex |-> pathPattern(routeMap[i].path), methods |-> routeMap[i].methods]]
  IN  scanPatterns(routePatterns, 1, req)

\* what a read-only call returned
Query(op, n, arg, result) == [op |-> op, node |-> n, arg |-> arg, result |-> result]

\* the members of a set of routers in the order they were constructed
RECURSIVE InOrder(_)
InOrder(S) ==
  IF S = {} THEN <<>>
  ELSE LET m == CHOOSE x \in S : \A y \in S : x <= y
       IN  <<m>> \o InOrder(S \ {m})

\* router.path (a run makes one read-only call: none of them changes the tree)
Path(n) ==
  /\ q.op = "none"
  /\ q' = Query("path", n, <<>>, path(n))
  /\ UNCHANGED notQVars

\* router.flattenRouters()
Flatten(n) ==
  /\ q.op = "none"
  /\ q' = Query("flattenRouters", n, <<>>, flattenRouters(n))
  /\ UNCHANGED notQVars

\* generateRouterMap(router)
GenerateRouterMap(n, resolved) ==
  /\ q.op = "none"
  /\ q' = Query("generateRouterMap", n, resolved, generateRouterMap(n, resolved))
  /\ UNCHANGED notQVars

\* getAllRoutes(router)
GetAllRoutes(n) ==
  /\ q.op = "none"
  /\ q' = Query("getAllRoutes", n, <<>>, getAllRoutes(n))
  /\ UNCHANGED notQVars

\* a request through the middleware of methodNotAllowedHandler(router)
MethodNotAllowedRequest(n, method, p) ==
  LET req == [method |-> method, path |-> p, originalUrl |-> p]
  IN  /\ q.op = "none"
      /\ q' = Query("methodNotAllowedHandler", n, req, methodNotAllowedHandler(n, req))
      /\ UNCHANGED notQVars

\* A tree as ServerModule and its users build it: the top router is mounted on
\* the application, every other router has an earlier router as its parent and
\* was made by createChildRouter, or (the second one only) by new Router(route,
\* parent), which leaves it out of its parent's childRouters.
QueryInit ==
  /\ nRouters \in 1..MaxRouters
  /\ parentRouter \in
       {f \in [Nodes -> {ExpressApp} \cup Nodes] :
          \A k \in Nodes : IF k = 1 \/ k > nRouters THEN f[k] = ExpressApp
                           ELSE f[k] \in 1..(k - 1)}
  /\ \E constructed \in SUBSET ({2} \cap Routers) :
       childRouters =
         [n \in Nodes |->
            InOrder({k \in Routers \ constructed : k > 1 /\ parentRouter[k] = n})]
  /\ route \in
       {f \in [Nodes -> TopRoutes \cup SubRoutes \cup {<<>>}] :
          \A k \in Nodes : IF k = 1 THEN f[k] \in TopRoutes
                           ELSE IF k <= nRouters THEN f[k] \in SubRoutes
                           ELSE f[k] = <<>>}
  /\ routes \in
       {f \in [Nodes -> StoredRouteLists] : \A k \in Nodes : k > nRouters => f[k] = <<>>}
  /\ routerMiddleware =
       [n \in Nodes |-> IF n <= nRouters THEN DefaultRouterMiddleware ELSE <<>>]
  /\ handlerMiddleware =
       [n \in Nodes |-> IF n <= nRouters THEN DefaultHandlerMiddleware ELSE <<>>]
  /\ initialised = [n \in Nodes |-> FALSE]
  /\ expressRouter = [n \in Nodes |-> <<>>]
  /\ expressApp = <<>>
  /\ ret = Ret("new", This)
  /\ initLog = <<>>
  /\ resp = NoResp
  /\ vrInput = DGet
  /\ vrResult = "none"
  /\ q = NoQuery
  /\ SendIdle
  /\ SrvIdle
  /\ ModIdle
  /\ RegIdle
  /\ ExIdle
  /\ HookIdle

QueryNext ==
  \/ \E n \in Routers : Path(n)
  \/ \E n \in Routers : Flatten(n)
  \/ \E n \in Routers, resolved \in BOOLEAN : GenerateRouterMap(n, resolved)
  \/ \E n \in Routers : GetAllRoutes(n)
  \/ \E n \in Routers, method \in RequestMethods, p \in RequestPaths :
       MethodNotAllowedRequest(n, method, p)

QuerySpec == QueryInit /\ [][QueryNext]_vars

(* --------------------------- res.sendError ----------------------------- *)
\* the errors given to sendError
ThrownErrors ==
  {ErrorObject(kind, code, statusCode, message, IF kind = "AdaptError" THEN "d1" ELSE Undefined) :
     kind \in {"AdaptError", "Error"},
     code \in {"NOT_FOUND", "SERVER_ERROR", "E_CUSTOM", Undefined},
     statusCode \in {0, 400, 418},
     message \in {"boom", "oops"}}

\* req.translate?.(error) ?? error.message
translateOrMessage(hasTranslate, error) ==
  IF hasTranslate THEN <<"translated", error.code>> ELSE <<error.message>>

\* res.status(error.statusCode).json({ code, message, data })
Response(hasTranslate, error) ==
  [status |-> error.statusCode,
   body |-> [code |-> error.code, message |-> translateOrMessage(hasTranslate, error),
             data |-> error.data]]

\* a variant that does not keep the statusCode of the thrown error
sendErrorRegistryStatus(error, hasTranslate, registry) ==
  IF error.kind # "AdaptError"
  THEN IF error.code \in DOMAIN registry
       THEN LET e == [registry[error.code] EXCEPT !.error = error.message]
            IN  [errors |-> [registry EXCEPT ![error.code] = e],
                 responses |-> <<Response(hasTranslate, e)>>]
       ELSE [errors |-> registry,
             responses |-> <<Response(hasTranslate, registry["SERVER_ERROR"])>>]
  ELSE [errors |-> registry, responses |-> <<Response(hasTranslate, error)>>]

\* res.sendError(error) as installed by ServerUtils.addErrorHandler: the
\* registry after the call and the responses sent.  The registry entry e is
\* the shared object, so the assignments to e.statusCode and e.error stay.
sendError(error, hasTranslate, registry) ==
  IF error.kind # "AdaptError"
  THEN IF error.code \in DOMAIN registry
       THEN LET e == [registry[error.code] EXCEPT
                        !.statusCode = IF error.statusCode # 0 THEN error.statusCode ELSE @,
                        !.error = error.message]
            IN  [errors |-> [registry EXCEPT ![error.code] = e],
                 responses |-> <<Response(hasTranslate, e)>>]
       ELSE [errors |-> registry,
             responses |-> <<Response(hasTranslate, registry["SERVER_ERROR"])>>]
  ELSE [errors |-> registry, responses |-> <<Response(hasTranslate, error)>>]

\* res.sendError(error) on a request with or without req.translate
SendError(error, hasTranslate) ==
  LET out == sendError(error, hasTranslate, errors)
  IN  /\ errors' = out.errors
      /\ sent' = [op |-> "sendError", error |-> error, hasTranslate |-> hasTranslate,
                  before |-> errors, responses |-> out.responses]
      /\ UNCHANGED notErrVars

SendInit ==
  /\ nRouters = 1
  /\ route = [n \in Nodes |-> IF n = 1 THEN <<"/", "api">> ELSE <<>>]
  /\ parentRouter = [n \in Nodes |-> ExpressApp]
  /\ childRouters = [n \in Nodes |-> <<>>]
  /\ routes = [n \in Nodes |-> <<>>]
  /\ routerMiddleware = [n \in Nodes |-> IF n = 1 THEN DefaultRouterMiddleware ELSE <<>>]
  /\ handlerMiddleware = [n \in Nodes |-> IF n = 1 THEN DefaultHandlerMiddleware ELSE <<>>]
  /\ initialised = [n \in Nodes |-> FALSE]
  /\ expressRouter = [n \in Nodes |-> <<>>]
  /\ expressApp = <<>>
  /\ ret = Ret("new", This)
  /\ initLog = <<>>
  /\ resp = NoResp
  /\ vrInput = DGet
  /\ vrResult = "none"
  /\ q = NoQuery
  /\ SendIdle
  /\ SrvIdle
  /\ ModIdle
  /\ RegIdle
  /\ ExIdle
  /\ HookIdle

SendNext ==
  \/ \E error \in ThrownErrors, hasTranslate \in BOOLEAN : SendError(error, hasTranslate)

SendSpec == SendInit /\ [][SendNext]_vars

(* ------------------- claims about the read-only calls ----------------- *)
\* the routes of a sequence of routers
RoutesOf(nodes) == [i \in 1..Len(nodes) |-> route[nodes[i]]]
\* prefix and r joined with one "/" exactly when neither brings one
Join(prefix, r) ==
  IF (prefix # <<>> /\ prefix[Len(prefix)] = "/") \/ (r # <<>> /\ r[1] = "/")
  THEN prefix \o r
  ELSE prefix \o <<"/">> \o r
RECURSIVE JoinAll(_, _)
JoinAll(rs, k) == IF k = 0 THEN <<>> ELSE Join(JoinAll(rs, k - 1), rs[k])

\* C11: the path of a router is its parent's path (empty when the parent is
\* not a Router) followed by its route, with one "/" between them exactly when
\* the prefix does not end with "/" and the route does not start with "/"; so
\* "/api" -> "v1" -> "users" gives "/api/v1/users" and "/api/" -> "/users"
\* gives "/api//users".
C11_Path ==
  q.op = "path" =>
    LET rs == RoutesOf(AncestorChain(q.node))
    IN  /\ q.result = JoinAll(rs, Len(rs))
        /\ rs = <<<<"/", "api">>, <<"v1">>, <<"users">>>>
             => q.result = <<"/", "api", "/", "v1", "/", "users">>
        /\ rs = <<<<"/", "api", "/">>, <<"/", "users">>>>
             => q.result = <<"/", "api", "/", "/", "users">>
C11_Witness ==
  /\ q.op = "path"
  /\ RoutesOf(AncestorChain(q.node)) = <<<<"/", "api", "/">>, <<"/", "users">>>>
  /\ q.result = <<"/", "api", "/", "/", "users">>

\* the routers reachable from n through childRouters, n included
RECURSIVE Subtree(_)
Subtree(n) ==
  {n} \cup UNION {Subtree(childRouters[n][i]) : i \in 1..Len(childRouters[n])}
\* the position of router x in a sequence of distinct routers (0: not in it)
IndexIn(seq, x) ==
  IF \E i \in 1..Len(seq) : seq[i] = x THEN CHOOSE i \in 1..Len(seq) : seq[i] = x ELSE 0

\* C12: flattenRouters(root) starts with root and holds every router reachable
\* from root through childRouters exactly once, each router before its
\* descendants and the subtrees of siblings in childRouters order; the call
\* returns for every tree.
C12_FlattenRouters ==
  q.op = "flattenRouters" =>
    LET f == q.result
    IN  /\ f[1] = q.node
        /\ Range(f) = Subtree(q.node)
        /\ Len(f) = Cardinality(Subtree(q.node))
        /\ \A i \in 1..Len(f) : \A c \in Range(childRouters[f[i]]) : i < IndexIn(f, c)
        /\ \A p \in Range(f) : \A i, j \in 1..Len(childRouters[p]) :
             i < j => \A d \in Subtree(childRouters[p][i]) :
                        IndexIn(f, d) < IndexIn(f, childRouters[p][j])
C12_Witness ==
  /\ q.op = "flattenRouters"
  /\ q.node = 1
  /\ childRouters[1] = <<2>>
  /\ childRouters[2] = <<3>>
  /\ q.result = <<1, 2, 3>>

\* the number of routes stored on the routers of a set
RECURSIVE RouteCount(_)
RouteCount(S) ==
  IF S = {} THEN 0
  ELSE LET n == CHOOSE x \in S : TRUE IN Len(routes[n]) + RouteCount(S \ {n})
\* the number of endpoints in a router map
RECURSIVE EndpointCount(_, _)
EndpointCount(m, K) ==
  IF K = {} THEN 0
  ELSE LET k == CHOOSE x \in K : TRUE IN Len(m[k]) + EndpointCount(m, K \ {k})
\* the key of the router r in the map of top: its route segments from below
\* top down to r, each followed by "_", then "endpoints"
RECURSIVE RelativePrefix(_, _)
RelativePrefix(top, r) ==
  IF r = top THEN <<>> ELSE RelativePrefix(top, parentRouter[r]) \o route[r] \o <<"_">>
OwnerKey(top, r) ==
  (IF r = top THEN route[top] \o <<"_">> ELSE RelativePrefix(top, r)) \o <<"endpoints">>

\* C13: generateRouterMap(topRouter) is complete: it returns a map in which
\* every route stored on topRouter or a descendant appears in exactly one
\* entry, under the key of the router that owns it, for every tree shape.
C13_RouterMapComplete ==
  q.op = "generateRouterMap" =>
    /\ ~q.result.threw
    /\ LET map == q.result.value
       IN  /\ EndpointCount(map, DOMAIN map) = RouteCount(Subtree(q.node))
           /\ \A r \in Subtree(q.node) : \A i \in 1..Len(routes[r]) :
                /\ OwnerKey(q.node, r) \in DOMAIN map
                /\ \E j \in 1..Len(map[OwnerKey(q.node, r)]) :
                     map[OwnerKey(q.node, r)][j].url = url(r, q.arg) \o routes[r][i].route

\* C14: in generateRouterMap(topRouter) a router without routes contributes no
\* key and a router with routes contributes one key whose value lists exactly
\* its own routes in routes order, each as { url: router.url + route.route,
\* accepted_methods } with exactly the methods of the route's handlers, each
\* mapped to its meta object or to an empty object.
C14_RouterMapEntries ==
  q.op = "generateRouterMap" =>
    /\ ~q.result.threw
    /\ \A r \in Subtree(q.node) :
         IF routes[r] = <<>>
         THEN OwnerKey(q.node, r) \notin DOMAIN q.result.value
         ELSE /\ OwnerKey(q.node, r) \in DOMAIN q.result.value
              /\ LET es == q.result.value[OwnerKey(q.node, r)]
                 IN  /\ Len(es) = Len(routes[r])
                     /\ \A i \in 1..Len(es) :
                          /\ es[i].url = url(r, q.arg) \o routes[r][i].route
                          /\ DOMAIN es[i].accepted_methods = DOMAIN routes[r][i].handlers
                          /\ \A m \in DOMAIN es[i].accepted_methods :
                               es[i].accepted_methods[m] =
                                 IF routes[r][i] = QUsersId /\ m = "get"
                                 THEN "listUsers" ELSE EmptyObject

\* the routes stored in the subtree of n, as pairs of owner and position
StoredIn(n) == UNION {{<<r, i>> : i \in 1..Len(routes[r])} : r \in Subtree(n)}
\* the full path of a stored route: the owner's path, '/' counting as empty,
\* followed by the route
FullPathOf(ri) ==
  LET rs == RoutesOf(AncestorChain(ri[1]))
      p == JoinAll(rs, Len(rs))
  IN  (IF p = <<"/">> THEN <<>> ELSE p) \o routes[ri[1]][ri[2]].route
UpperMethods == [get |-> "GET", post |-> "POST", put |-> "PUT"]

\* C15: the keys of getAllRoutes(router) are exactly the full paths of the
\* routes of the flattened tree, each once, and the value of a path is the
\* union of the upper-cased methods of every route with that full path on any
\* node; GET on one node and POST on another for one path give {GET, POST}.
C15_GetAllRoutes ==
  q.op = "getAllRoutes" =>
    LET m == q.result
    IN  /\ {m[i].path : i \in 1..Len(m)} = {FullPathOf(ri) : ri \in StoredIn(q.node)}
        /\ \A i, j \in 1..Len(m) : m[i].path = m[j].path => i = j
        /\ \A i \in 1..Len(m) :
             m[i].methods =
               UNION {{UpperMethods[k] : k \in DOMAIN routes[ri[1]][ri[2]].handlers} :
                        ri \in {x \in StoredIn(q.node) : FullPathOf(x) = m[i].path}}
C15_Witness ==
  /\ q.op = "getAllRoutes"
  /\ \E a, b \in StoredIn(q.node) :
       /\ a[1] # b[1]
       /\ FullPathOf(a) = FullPathOf(b)
       /\ DOMAIN routes[a[1]][a[2]].handlers = {"post"}
       /\ DOMAIN routes[b[1]][b[2]].handlers = {"get"}
       /\ \E i \in 1..Len(q.result) :
            /\ q.result[i].path = <<"/", "api", "/", "users", "/", "me">>
            /\ q.result[i].methods = {"GET", "POST"}

\* the registered paths a request path matches, with their allowed methods
MatchedEntries(n, p) ==
  LET m == getAllRoutes(n)
  IN  {m[i] : i \in {k \in 1..Len(m) : regexTest(pathPattern(m[k].path), 1, p, 1)}}

\* C16: the middleware of methodNotAllowedHandler(router) calls next exactly
\* once per request: with the method-not-allowed error carrying the sorted,
\* comma-joined allowed methods when the path matches a registered path whose
\* allowed set lacks the method; with no argument when the method is allowed
\* or the path matches no registered path.
C16_MethodNotAllowed ==
  q.op = "methodNotAllowedHandler" =>
    LET matched == MatchedEntries(q.node, q.arg.path)
    IN  /\ Len(q.result) = 1
        /\ \A e \in matched :
             q.arg.method \notin e.methods =>
               /\ q.result[1].code = "METHOD_NOT_ALLOWED"
               /\ q.result[1].allowedMethods = joinSorted(e.methods, 1)
        /\ (matched = {} \/ \E e \in matched : q.arg.method \in e.methods)
             => q.result[1] = NextNoArg

\* C17: res.sendError(error) sends one JSON response { code, message, data }
\* with a status: an AdaptError as it is; another error whose code is in the
\* registry with the entry's code and the thrown error's statusCode if it has
\* one, else the entry's status; another error with an unknown code as
\* SERVER_ERROR.  The message is the translation when the request has one,
\* else the message of the error that is sent.
C17_SendError ==
  sent.op = "sendError" =>
    LET error == sent.error
        known == error.code \in DOMAIN sent.before
        entry == sent.before[IF known THEN error.code ELSE "SERVER_ERROR"]
        r == sent.responses[1]
    IN  /\ Len(sent.responses) = 1
        /\ error.kind = "AdaptError" =>
             /\ r.status = error.statusCode
             /\ r.body.code = error.code
             /\ r.body.data = error.data
             /\ ~sent.hasTranslate => r.body.message = <<error.message>>
        /\ (error.kind # "AdaptError" /\ known) =>
             /\ r.body.code = entry.code
             /\ r.status = IF error.statusCode # 0 THEN error.statusCode ELSE entry.statusCode
             /\ r.body.data = entry.data
             /\ ~sent.hasTranslate => r.body.message = <<entry.message>>
        /\ (error.kind # "AdaptError" /\ ~known) =>
             /\ r.body.code = "SERVER_ERROR"
             /\ r.status = entry.statusCode
             /\ ~sent.hasTranslate => r.body.message = <<entry.message>>
        /\ sent.hasTranslate => r.body.message = <<"translated", r.body.code>>
C17_Witness ==
  /\ sent.op = "sendError"
  /\ sent.error.kind = "Error"
  /\ sent.error.code = "NOT_FOUND"
  /\ sent.error.statusCode = 418
  /\ sent.before = LoadedErrors
  /\ sent.responses[1].status = 418
  /\ sent.responses[1].body.code = "NOT_FOUND"

\* ---------------------------------------------------------------------
\* Hook (adapt-authoring-core): tap and invoke
\* ---------------------------------------------------------------------

\* observer.bind(scope): what tap stores is a new function wrapping observer
Bound(o) == [bound |-> o]
\* the function the caller holds
Fn(o) == [fn |-> o]
Fns == {Fn(o) : o \in ObserverIds}
\* the hook is tapped and untapped before it is first invoked, and invoked
\* again when no invocation is running or has observers still running
Setup == inv.pc = "idle"
Between == inv.pc \in {"idle", "done"} /\ inv.pending = {}
IsFunction(o) == o \in ObserverIds
Tapped == {hookObservers[i].bound : i \in 1..Len(hookObservers)}

\* what an observer does when it fails: throws or rejects with an Error, or
\* with a value that is not truthy (throw undefined, Promise.reject())
Throws == {"error", "falsy"}
ThrownValue(k, t) == IF t = "error" THEN ErrorOf(k) ELSE UndefinedValue
\* o(...) is called with the caller's object (shared) or with a
\* _.cloneDeep of it, whose content is that of the caller's object now; the
\* observer reads the object it was given and then writes its mark on it:
\* on the caller's object when shared, on its own copy otherwise
Call(I, k, shared) ==
  LET given == I.obj
  IN  [I EXCEPT !.seen[k] = given,
                !.obj = IF shared THEN Append(given, k) ELSE @,
                !.copy[k] = IF shared THEN @ ELSE Append(given, k),
                !.started = Append(@, k),
                !.events = Append(@, <<"start", k>>)]

\* line 385: every promise onInvoke() returned is rejected with the error
\* if it is truthy, resolved otherwise; settling a settled promise again
\* changes nothing
settlePromiseObservers(P, I) ==
  [i \in 1..Len(P) |->
     IF P[i].state # "pending" THEN P[i]
     ELSE [P[i] EXCEPT !.state = IF I.error.truthy THEN "rejected" ELSE "resolved",
                       !.error = I.error,
                       !.by = I.id]]
\* lines 386-387: if (error) throw error, else return data
invokeEnd(I) ==
  [I EXCEPT !.pc = "done", !.outcome = IF I.error.truthy THEN "rejected" ELSE "resolved"]
\* catch (e) { error = e }, after observer k failed
catch(I, k, e) ==
  invokeEnd([I EXCEPT !.error = e, !.events = Append(@, <<"fail", k>>)])

\* the for..of loop of a series hook, resumed at position I.idx: the next
\* observer is called, and either runs (how = "async") or throws at once
seriesLoopNoCopy(I, how) ==
  IF I.idx > Len(hookObservers) THEN invokeEnd(I)
  ELSE LET k == hookObservers[I.idx].bound
           J == Call(I, k, TRUE)
       IN  IF how = "async" THEN [J EXCEPT !.pending = {k}]
           ELSE catch(J, k, ThrownValue(k, how))
seriesLoop(I, how) ==
  IF I.idx > Len(hookObservers) THEN invokeEnd(I)
  ELSE LET k == hookObservers[I.idx].bound
           J == Call(I, k, hookOptions.mutable)
       IN  IF how = "async" THEN [J EXCEPT !.pending = {k}]
           ELSE catch(J, k, ThrownValue(k, how))

\* this._hookObservers.map(o => o(...args)): every observer is called in
\* turn with the caller's args; a throw by observer number thrower ends the map
RECURSIVE mapCall(_, _, _, _)
mapCall(I, i, thrower, t) ==
  IF i > Len(hookObservers) THEN I
  ELSE LET k == hookObservers[i].bound
           J == Call(I, k, TRUE)
       IN  IF i = thrower THEN catch(J, k, ThrownValue(k, t))
           ELSE mapCall([J EXCEPT !.pending = @ \cup {k}], i + 1, thrower, t)
\* what Promise.all resolves to: the results in the order of the observers
\* map() called, whatever is tapped or untapped later
allResults(I) == [i \in 1..Len(I.observers) |-> I.results[I.observers[i]]]

\* hook.tap(observer): anything that is not a function is ignored
Tap(o) ==
  /\ Setup
  /\ o \notin Tapped
  /\ hookObservers' = IF IsFunction(o) THEN Append(hookObservers, Bound(o)) ELSE hookObservers
  /\ untapped' = untapped \ {o}
  /\ UNCHANGED <<hookOptions, promiseObservers, inv>>
  /\ UNCHANGED notHookVars

\* Array.prototype.indexOf and splice(i, 1), with positions from 1 and 0 for
\* "not found"
indexOf(s, x) ==
  IF \E i \in 1..Len(s) : s[i] = x
  THEN CHOOSE i \in 1..Len(s) : s[i] = x /\ \A j \in 1..(i - 1) : s[j] # x
  ELSE 0
splice1(s, i) == SubSeq(s, 1, i - 1) \o SubSeq(s, i + 1, Len(s))

\* hook.untap(observer): observer is a function that was tapped (Fn) or, as
\* in the tests, a reference taken from _hookObservers itself
Untap(observer) ==
  /\ Setup
  /\ LET i == indexOf(hookObservers, observer)
     IN  hookObservers' = IF i > 0 THEN splice1(hookObservers, i) ELSE hookObservers
  /\ untapped' = IF observer \in Fns /\ observer.fn \in Tapped
                  THEN untapped \cup {observer.fn} ELSE untapped
  /\ UNCHANGED <<hookOptions, promiseObservers, inv>>
  /\ UNCHANGED notHookVars

\* hook.onInvoke(): a new pending promise is pushed; it may be called at
\* any time, also while an invocation is waiting for its observers
OnInvoke ==
  /\ Len(promiseObservers) < MaxPromises
  /\ promiseObservers' = Append(promiseObservers,
        [state |-> "pending", error |-> UndefinedValue, by |-> 0, after |-> inv.id])
  /\ UNCHANGED <<hookOptions, hookObservers, untapped, inv>>
  /\ UNCHANGED notHookVars

\* a new call of invoke(obj): its number and the observers tapped at the call
NewInvocation(pc) ==
  [NoInvocation EXCEPT !.id = inv.id + 1, !.pc = pc,
                       !.observers = [i \in 1..Len(hookObservers) |-> hookObservers[i].bound]]

\* hook.invoke(obj) on a series hook, up to its first await
InvokeSeries(how) ==
  /\ Between
  /\ inv.id < MaxInvocations
  /\ hookOptions.type # "parallel"
  /\ inv' = seriesLoop([NewInvocation("series") EXCEPT !.idx = 1], how)
  /\ promiseObservers' = IF inv'.pc = "done" THEN settlePromiseObservers(promiseObservers, inv')
                          ELSE promiseObservers
  /\ UNCHANGED <<hookOptions, hookObservers, untapped>>
  /\ UNCHANGED notHookVars

\* the awaited observer settles: the loop goes on, or the error is caught
SeriesSettle(res, how) ==
  /\ inv.pc = "series"
  /\ \E k \in inv.pending :
       LET I == [inv EXCEPT !.pending = {}]
       IN  inv' = IF res = "return"
                  THEN seriesLoop([I EXCEPT !.results[k] = ReturnOf(k),
                                            !.data = <<ReturnOf(k)>>,
                                            !.idx = @ + 1,
                                            !.events = Append(@, <<"settle", k>>)], how)
                  ELSE catch(I, k, ThrownValue(k, res))
  /\ promiseObservers' = IF inv'.pc = "done" THEN settlePromiseObservers(promiseObservers, inv')
                          ELSE promiseObservers
  /\ UNCHANGED <<hookOptions, hookObservers, untapped>>
  /\ UNCHANGED notHookVars

\* hook.invoke(obj) on a parallel hook, up to its await
InvokeParallel(thrower, t) ==
  /\ Between
  /\ inv.id < MaxInvocations
  /\ hookOptions.type = "parallel"
  /\ thrower \in 0..Len(hookObservers)
  /\ LET I == mapCall(NewInvocation("parallel"), 1, thrower, t)
     IN  inv' = IF I.pc = "parallel" /\ I.pending = {}
                THEN invokeEnd([I EXCEPT !.data = allResults(I)])
                ELSE I
  /\ promiseObservers' = IF inv'.pc = "done" THEN settlePromiseObservers(promiseObservers, inv')
                          ELSE promiseObservers
  /\ UNCHANGED <<hookOptions, hookObservers, untapped>>
  /\ UNCHANGED notHookVars

\* one of the observers a parallel hook called settles; Promise.all settles
\* with the first rejection, or when every observer has returned, and
\* ignores whatever an observer does after that
ParallelSettle(k, res) ==
  /\ inv.pc \in {"parallel", "done"}
  /\ k \in inv.pending
  /\ LET I == [inv EXCEPT !.pending = @ \ {k}]
         R == [I EXCEPT !.results[k] = ReturnOf(k), !.events = Append(@, <<"settle", k>>)]
     IN  inv' = IF I.pc = "done" THEN I
                ELSE IF res = "return"
                THEN IF R.pending = {}
                     THEN invokeEnd([R EXCEPT !.data = allResults(R)])
                     ELSE R
                ELSE catch(I, k, ThrownValue(k, res))
  /\ promiseObservers' = IF inv.pc = "parallel" /\ inv'.pc = "done"
                          THEN settlePromiseObservers(promiseObservers, inv')
                          ELSE promiseObservers
  /\ UNCHANGED <<hookOptions, hookObservers, untapped>>
  /\ UNCHANGED notHookVars

HookInit ==
  /\ nRouters = 1
  /\ route = [n \in Nodes |-> IF n = 1 THEN <<"/", "api">> ELSE <<>>]
  /\ parentRouter = [n \in Nodes |-> ExpressApp]
  /\ childRouters = [n \in Nodes |-> <<>>]
  /\ routes = [n \in Nodes |-> <<>>]
  /\ routerMiddleware = [n \in Nodes |-> IF n = 1 THEN DefaultRouterMiddleware ELSE <<>>]
  /\ handlerMiddleware = [n \in Nodes |-> IF n = 1 THEN DefaultHandlerMiddleware ELSE <<>>]
  /\ initialised = [n \in Nodes |-> FALSE]
  /\ expressRouter = [n \in Nodes |-> <<>>]
  /\ expressApp = <<>>
  /\ ret = Ret("new", This)
  /\ initLog = <<>>
  /\ resp = NoResp
  /\ vrInput = DGet
  /\ vrResult = "none"
  /\ q = NoQuery
  /\ SendIdle
  /\ SrvIdle
  /\ ModIdle
  /\ RegIdle
  /\ ExIdle
  /\ hookOptions \in {Hook(opts) : opts \in HookOpts}
  /\ hookObservers = <<>>
  /\ promiseObservers = <<>>
  /\ untapped = {}
  /\ inv = NoInvocation

HookNext ==
  \/ \E o \in 0..MaxObservers : Tap(o)
  \/ \E observer \in Fns \cup {hookObservers[i] : i \in 1..Len(hookObservers)} : Untap(observer)
  \/ OnInvoke
  \/ \E how \in {"async"} \cup Throws : InvokeSeries(how)
  \/ \E res \in {"return"} \cup Throws, how \in {"async"} \cup Throws : SeriesSettle(res, how)
  \/ \E thrower \in 0..MaxObservers, t \in Throws : InvokeParallel(thrower, t)
  \/ \E k \in ObserverIds, res \in {"return"} \cup Throws : ParallelSettle(k, res)

HookSpec == HookInit /\ [][HookNext]_vars

\* the observers of the invocation, in the order they were tapped
Registered == inv.observers
Failed == {k \in ObserverIds : \E i \in 1..Len(inv.events) : inv.events[i] = <<"fail", k>>}
Settled == {k \in ObserverIds : \E i \in 1..Len(inv.events) : inv.events[i] = <<"settle", k>>}

\* C18: on a hook that is not mutable and runs in parallel, every observer
\* is given its own deep copy of the arguments: no observer sees what another
\* observer wrote, and the object the caller passed is never changed
C18_ParallelDeepCopy ==
  (hookOptions.type = "parallel" /\ ~hookOptions.mutable) =>
    /\ \A i \in 1..Len(inv.started) : inv.seen[inv.started[i]] = <<>>
    /\ inv.obj = <<>>

\* C19: a series hook runs its observers one at a time in the order they
\* were tapped, each one called only after the one before it has returned;
\* a mutable series hook hands every observer the caller's own object, so an
\* observer sees what the earlier ones wrote; when every observer returns,
\* invoke() resolves to the value the last observer returned
C19_Series ==
  (hookOptions.type = "series") =>
    /\ Len(inv.started) <= Len(Registered)
    /\ \A i \in 1..Len(inv.started) :
         /\ inv.started[i] = Registered[i]
         /\ \A j \in 1..(i - 1) : Registered[j] \in Settled
         /\ inv.seen[Registered[i]] =
              IF hookOptions.mutable THEN SubSeq(Registered, 1, i - 1) ELSE <<>>
    /\ Cardinality(inv.pending) <= 1
    /\ hookOptions.mutable => inv.obj = inv.started
    /\ ~hookOptions.mutable => inv.obj = <<>>
    /\ (inv.pc = "done" /\ Failed = {}) =>
         /\ inv.outcome = "resolved"
         /\ inv.started = Registered
         /\ inv.data = IF Registered = <<>> THEN <<UndefinedValue>>
                       ELSE <<ReturnOf(Registered[Len(Registered)])>>
C19_Witness ==
  /\ hookOptions = [type |-> "series", mutable |-> TRUE]
  /\ Registered = <<3, 1, 2>>
  /\ inv.pc = "done"
  /\ inv.outcome = "resolved"
  /\ inv.seen[2] = <<3, 1>>
  /\ inv.obj = <<3, 1, 2>>
  /\ inv.data = <<ReturnOf(2)>>
  /\ inv.events = <<<<"start", 3>>, <<"settle", 3>>, <<"start", 1>>, <<"settle", 1>>,
                    <<"start", 2>>, <<"settle", 2>>>>

\* C20: on a series hook, when an observer throws or rejects, no observer
\* tapped after it is called in that invocation, and invoke() rejects with
\* the very error the observer raised
C20_SeriesStopsOnError ==
  (hookOptions.type = "series") =>
    \A i \in 1..Len(Registered) :
      Registered[i] \in Failed =>
        /\ \A j \in (i + 1)..Len(Registered) :
             \A e \in 1..Len(inv.events) : inv.events[e] # <<"start", Registered[j]>>
        /\ inv.pc = "done"
        /\ inv.outcome = "rejected"
        /\ inv.error.by = Registered[i]

\* the promises the current invocation settled
SettledByInvocation ==
  {i \in 1..Len(promiseObservers) : promiseObservers[i].by = inv.id /\ inv.id > 0}

\* C21: in either mode an error thrown or rejected by an observer is not
\* swallowed: invoke() rejects with it and so does every onInvoke() promise
\* that was pending; when no observer fails, invoke() and those promises
\* resolve
C21_ErrorsNotSwallowed ==
  inv.pc = "done" =>
    IF Failed # {}
    THEN /\ inv.outcome = "rejected"
         /\ inv.error.by \in Failed
         /\ \A i \in SettledByInvocation :
              /\ promiseObservers[i].state = "rejected"
              /\ promiseObservers[i].error = inv.error
    ELSE /\ inv.outcome = "resolved"
         /\ \A i \in SettledByInvocation : promiseObservers[i].state = "resolved"

\* C22: a promise returned by onInvoke() is settled by the first invoke()
\* called after onInvoke() was called, never by one called before (also not
\* by one still running when onInvoke() is called), and once it is settled
\* later invocations do not change it
C22_OnInvokeNextInvocation ==
  /\ [](\A i \in 1..Len(promiseObservers) :
          promiseObservers[i].state # "pending" =>
            promiseObservers[i].by = promiseObservers[i].after + 1)
  /\ [][\A i \in 1..Len(promiseObservers) :
          promiseObservers[i].state # "pending" => promiseObservers'[i] = promiseObservers[i]]_vars

\* C23: after tap(f) and then untap(f) the observer f is no longer
\* registered and later invocations do not call it; untap removes one
\* registration only
C23_UntapRemoves ==
  /\ [](\A k \in untapped :
          /\ k \notin Tapped
          /\ \A i \in 1..Len(inv.started) : inv.started[i] # k)
  /\ [][Len(hookObservers') >= Len(hookObservers) - 1]_vars

\* ---------------------------------------------------------------------
\* addExistenceProps (lib/utils/addExistenceProps.js and ServerUtils)
\* ---------------------------------------------------------------------

Attrs == <<"body", "params", "query">>
\* _.capitalize on the three keys
capitalize(key) ==
  CASE key = "body" -> "Body"
    [] key = "params" -> "Params"
    [] key = "query" -> "Query"
\* storeVal: req[`has${_.capitalize(key)}`] = exists
storeVal(R, key, exists) ==
  LET name == "has" \o capitalize(key)
  IN  [R EXCEPT !.flags = [n \in DOMAIN R.flags \cup {name} |->
                             IF n = name THEN exists ELSE R.flags[n]]]
\* if (req.method === 'GET') req.body = {}
clearGetBodyNever(req) == req
clearGetBody(req) ==
  IF req.method = "GET" THEN [req EXCEPT !.body = Obj(<<>>)] ELSE req

\* the body of the forEach for one of body, params, query; whenFalsy is what
\* is stored for a container that is not truthy.  The variant deletes every
\* value that is not truthy.
stripAttrFalsyValues(R, attr, whenFalsy) ==
  LET c == R.req[attr]
      entries == DOMAIN c.entries
      kept == {k \in entries : c.entries[k] \notin {Undefined, JsNull, "0"}}
      deleted == Cardinality(entries \ kept)
  IN  IF c.kind # "object" THEN storeVal(R, attr, whenFalsy)
      ELSE IF Cardinality(entries) = 0 THEN storeVal(R, attr, FALSE)
      ELSE storeVal([R EXCEPT !.req[attr] = Obj([k \in kept |-> c.entries[k]])],
                    attr, deleted < Cardinality(entries))
stripAttr(R, attr, whenFalsy) ==
  LET c == R.req[attr]
      entries == DOMAIN c.entries
      kept == {k \in entries : c.entries[k] \notin {Undefined, JsNull}}
      deleted == Cardinality(entries \ kept)
  IN  IF c.kind # "object" THEN storeVal(R, attr, whenFalsy)
      ELSE IF Cardinality(entries) = 0 THEN storeVal(R, attr, FALSE)
      ELSE storeVal([R EXCEPT !.req[attr] = Obj([k \in kept |-> c.entries[k]])],
                    attr, deleted < Cardinality(entries))

\* ['body', 'params', 'query'].forEach(...) and then next()
RECURSIVE forEachAttr(_, _, _)
forEachAttr(R, i, whenFalsy) ==
  IF i > Len(Attrs) THEN [R EXCEPT !.next = @ + 1]
  ELSE forEachAttr(stripAttr(R, Attrs[i], whenFalsy), i + 1, whenFalsy)

\* addExistenceProps of lib/utils/addExistenceProps.js
addExistenceProps(req) == forEachAttr(Untouched(clearGetBody(req)), 1, FALSE)
\* ServerUtils.addExistenceProps, the one the Router installs
ServerUtilsAddExistenceProps(req) == forEachAttr(Untouched(clearGetBody(req)), 1, TRUE)

AddExistenceProps ==
  /\ ex.op = "none"
  /\ ex' = [ex EXCEPT !.op = "utils", !.out = addExistenceProps(ex.req)]
  /\ UNCHANGED notExVars

CallServerUtilsAddExistenceProps ==
  /\ ex.op = "none"
  /\ ex' = [ex EXCEPT !.op = "ServerUtils", !.out = ServerUtilsAddExistenceProps(ex.req)]
  /\ UNCHANGED notExVars

ExistInit ==
  /\ nRouters = 1
  /\ route = [n \in Nodes |-> IF n = 1 THEN <<"/", "api">> ELSE <<>>]
  /\ parentRouter = [n \in Nodes |-> ExpressApp]
  /\ childRouters = [n \in Nodes |-> <<>>]
  /\ routes = [n \in Nodes |-> <<>>]
  /\ routerMiddleware = [n \in Nodes |-> IF n = 1 THEN DefaultRouterMiddleware ELSE <<>>]
  /\ handlerMiddleware = [n \in Nodes |-> IF n = 1 THEN DefaultHandlerMiddleware ELSE <<>>]
  /\ initialised = [n \in Nodes |-> FALSE]
  /\ expressRouter = [n \in Nodes |-> <<>>]
  /\ expressApp = <<>>
  /\ ret = Ret("new", This)
  /\ initLog = <<>>
  /\ resp = NoResp
  /\ vrInput = DGet
  /\ vrResult = "none"
  /\ q = NoQuery
  /\ SendIdle
  /\ SrvIdle
  /\ ModIdle
  /\ RegIdle
  /\ HookIdle
  /\ \E req \in ExRequests : ex = [op |-> "none", req |-> req, out |-> Untouched(req)]

ExistNext ==
  \/ AddExistenceProps
  \/ CallServerUtilsAddExistenceProps

ExistSpec == ExistInit /\ [][ExistNext]_vars

\* the keys of a container whose value is neither null nor undefined
Surviving(c) == {k \in DOMAIN c.entries : c.entries[k] \notin {JsNull, Undefined}}
\* the attributes the request arrives with that the GET rule does not replace
Arriving == {attr \in {"body", "params", "query"} : ~(attr = "body" /\ ex.req.method = "GET")}
Flag(attr) == ex.out.flags["has" \o capitalize(attr)]

\* C24: for each of body, params and query that is present as an object,
\* afterwards no key holds null or undefined, every key with another value
\* is kept with its value, and the has-flag is true exactly when a key
\* remains; next() is called exactly once
C24_StripAndFlag ==
  ex.op # "none" =>
    /\ ex.out.next = 1
    /\ \A attr \in Arriving :
         ex.req[attr].kind = "object" =>
           LET before == ex.req[attr]
               after == ex.out.req[attr]
           IN  /\ after.kind = "object"
               /\ DOMAIN after.entries = Surviving(before)
               /\ \A k \in DOMAIN after.entries :
                    /\ after.entries[k] = before.entries[k]
                    /\ after.entries[k] \notin {JsNull, Undefined}
               /\ Flag(attr) = (DOMAIN after.entries # {})
C24_Witness ==
  /\ ex.op = "utils"
  /\ ex.req.method = "POST"
  /\ ex.req.body = Obj([k \in {"a", "b"} |-> IF k = "a" THEN "0" ELSE JsNull])
  /\ ex.out.req.body = Obj([k \in {"a"} |-> "0"])
  /\ Flag("body")
  /\ ex.req.params = Obj([k \in {"a", "b"} |-> IF k = "a" THEN Undefined ELSE JsNull])
  /\ ~Flag("params")

\* C25: for a GET request the body is replaced by an empty object and
\* hasBody is false whatever body arrived; params and query come out as
\* they do for the same request sent with another method
C25_GetBodyCleared ==
  (ex.op # "none" /\ ex.req.method = "GET") =>
    LET other == IF ex.op = "utils"
                 THEN addExistenceProps([ex.req EXCEPT !.method = "POST"])
                 ELSE ServerUtilsAddExistenceProps([ex.req EXCEPT !.method = "POST"])
    IN  /\ ex.out.req.body = Obj(<<>>)
        /\ Flag("body") = FALSE
        /\ \A attr \in {"params", "query"} :
             /\ ex.out.req[attr] = other.req[attr]
             /\ Flag(attr) = other.flags["has" \o capitalize(attr)]
C25_Witness ==
  /\ ex.op = "utils"
  /\ ex.req.method = "GET"
  /\ ex.req.body = Obj([k \in {"a"} |-> "bar"])
  /\ ex.req.params = Obj([k \in {"a"} |-> "bar"])
  /\ ex.out.req.body = Obj(<<>>)
  /\ ~Flag("body")
  /\ Flag("params")

\* C26: when body, params or query is absent or not truthy (null,
\* undefined, false) addExistenceProps sets its has-flag to false
C26_AbsentIsFalse ==
  ex.op # "none" =>
    \A attr \in Arriving : ex.req[attr].kind # "object" => Flag(attr) = FALSE

\* C30: the array getHandlerMiddleware() returns holds no middleware
\* function more than once, for every router of every hierarchy
C30_HandlerMiddlewareUnique ==
  \A n \in Routers :
    LET result == getHandlerMiddleware(n, <<>>)
    IN  \A i, j \in 1..Len(result) : result[i] = result[j] => i = j

\* a stack that holds no function twice
NoDuplicates(stack) ==
  \A i, j \in 1..Len(stack) : stack[i] = stack[j] => i = j

\* C31: addMiddleware and addHandlerMiddleware do not add duplicates: after
\* any sequence of calls each function occurs at most once in
\* routerMiddleware and at most once in handlerMiddleware
C31_NoDuplicateMiddleware ==
  \A n \in Routers :
    NoDuplicates(routerMiddleware[n]) /\ NoDuplicates(handlerMiddleware[n])

\* ---------------------------------------------------------------------
\* registerRoutes(router, routes, auth)
\* ---------------------------------------------------------------------

\* the values of a permissions map: a list of scopes, an empty list (truthy
\* in JavaScript) and null
PermValues == {"scopes", "[]", "null"}
IsTruthy(perms) == perms # "null"
\* r.permissions: absent, or an object whose entries Object.entries gives in
\* insertion order, each method once
NoPermissions == [has |-> FALSE, entries |-> <<>>]
Permissions(entries) == [has |-> TRUE, entries |-> entries]
PermissionMaps ==
  {Permissions(e) : e \in {f \in SeqsUpTo([method : {"get", "post"}, perms : PermValues], 2) :
                             \A i, j \in 1..Len(f) : f[i].method = f[j].method => i = j}}
WithPermissions(r, permissions) == r @@ [permissions |-> permissions]
RegRouteDefs ==
  {WithPermissions(RouteDef(TRUE, rt, TRUE, OneHandler({"get", "post"}), FALSE), P) :
     rt \in {<<"/", "a">>, <<"/", "b">>}, P \in PermissionMaps \cup {NoPermissions}}

\* the calls on the auth module
secureRoute(fp, method, perms) ==
  [fn |-> "secureRoute", path |-> fp, method |-> method, perms |-> perms]
unsecureRoute(fp, method) ==
  [fn |-> "unsecureRoute", path |-> fp, method |-> method, perms |-> Undefined]

\* Router.addRoute(r) with one definition, on the routes the router stores
addRoute(stored, n, r) ==
  IF ~initialised[n] THEN stored \o SelectSeq(<<r>>, validateRoute) ELSE stored

\* the inner loop over Object.entries(r.permissions); the variant secures
\* every entry
authCallsAlwaysSecure(n, r) ==
  IF ~r.permissions.has THEN <<>>
  ELSE [i \in 1..Len(r.permissions.entries) |->
          LET e == r.permissions.entries[i]
          IN  secureRoute(path(n) \o r.route, e.method, e.perms)]
authCalls(n, r) ==
  IF ~r.permissions.has THEN <<>>
  ELSE [i \in 1..Len(r.permissions.entries) |->
          LET e == r.permissions.entries[i]
          IN  IF IsTruthy(e.perms)
              THEN secureRoute(path(n) \o r.route, e.method, e.perms)
              ELSE unsecureRoute(path(n) \o r.route, e.method)]

\* for (const r of routes) { router.addRoute(r); ... }
RECURSIVE registerRoutes(_, _, _, _)
registerRoutes(S, n, rs, i) ==
  IF i > Len(rs) THEN S
  ELSE registerRoutes([routes |-> addRoute(S.routes, n, rs[i]),
                       auth |-> S.auth \o authCalls(n, rs[i])], n, rs, i + 1)

CallRegisterRoutes(n, rs) ==
  /\ reg.op = "none"
  /\ LET out == registerRoutes([routes |-> routes[n], auth |-> <<>>], n, rs, 1)
     IN  /\ routes' = [routes EXCEPT ![n] = out.routes]
         /\ reg' = [op |-> "registerRoutes", router |-> n, given |-> rs,
                    before |-> routes[n], auth |-> out.auth]
  /\ ret' = Ret("registerRoutes", Undefined)
  /\ initLog' = <<>>
  /\ resp' = NoResp
  /\ UNCHANGED notRegRoutesVars

\* an api router, with or without a child router, nothing initialised
RegInit ==
  /\ nRouters \in {1, 2}
  /\ route = [n \in Nodes |-> IF n = 1 THEN <<"/", "api">>
                              ELSE IF n <= nRouters THEN <<"users">> ELSE <<>>]
  /\ parentRouter = [n \in Nodes |-> IF n = 2 /\ n <= nRouters THEN 1 ELSE ExpressApp]
  /\ childRouters = [n \in Nodes |-> IF n = 1 /\ nRouters = 2 THEN <<2>> ELSE <<>>]
  /\ routes \in [Nodes -> {<<>>, <<QMe>>}]
  /\ \A n \in Nodes : n > nRouters => routes[n] = <<>>
  /\ routerMiddleware = [n \in Nodes |-> IF n <= nRouters THEN DefaultRouterMiddleware ELSE <<>>]
  /\ handlerMiddleware = [n \in Nodes |-> IF n <= nRouters THEN DefaultHandlerMiddleware ELSE <<>>]
  /\ initialised = [n \in Nodes |-> FALSE]
  /\ expressRouter = [n \in Nodes |-> <<>>]
  /\ expressApp = <<>>
  /\ ret = Ret("new", This)
  /\ initLog = <<>>
  /\ resp = NoResp
  /\ vrInput = DGet
  /\ vrResult = "none"
  /\ q = NoQuery
  /\ SendIdle
  /\ SrvIdle
  /\ ModIdle
  /\ HookIdle
  /\ ExIdle
  /\ reg = NoReg
  /\ ModIdle

RegNext ==
  \/ \E n \in Routers, rs \in SeqsUpTo(RegRouteDefs, MaxRegRoutes) : CallRegisterRoutes(n, rs)

RegSpec == RegInit /\ [][RegNext]_vars

\* the auth calls the claim asks for, for the routes from position i on
RECURSIVE ExpectedAuth(_, _, _)
ExpectedAuth(n, rs, i) ==
  IF i > Len(rs) THEN <<>>
  ELSE LET r == rs[i]
           fp == path(n) \o r.route
           calls == IF ~r.permissions.has THEN <<>>
                    ELSE [k \in 1..Len(r.permissions.entries) |->
                            [fn |-> IF r.permissions.entries[k].perms = "null"
                                    THEN "unsecureRoute" ELSE "secureRoute",
                             path |-> fp,
                             method |-> r.permissions.entries[k].method,
                             perms |-> IF r.permissions.entries[k].perms = "null"
                                       THEN Undefined ELSE r.permissions.entries[k].perms]]
       IN  calls \o ExpectedAuth(n, rs, i + 1)

\* C28: registerRoutes adds every route to the router, in order, and for
\* every route with a permissions map makes exactly one auth call per entry,
\* for the path router.path + route.route: secureRoute with the perms when
\* they are truthy, unsecureRoute otherwise; a route without a permissions
\* map causes no auth call
C28_RegisterRoutes ==
  reg.op = "registerRoutes" =>
    /\ routes[reg.router] = reg.before \o reg.given
    /\ reg.auth = ExpectedAuth(reg.router, reg.given, 1)
C28_Witness ==
  /\ reg.op = "registerRoutes"
  /\ reg.router = 2
  /\ Len(reg.given) = 2
  /\ reg.given[1].route = <<"/", "a">>
  /\ reg.given[1].permissions =
       Permissions(<<[method |-> "post", perms |-> "null"], [method |-> "get", perms |-> "[]"]>>)
  /\ reg.given[2].permissions = NoPermissions
  /\ reg.auth = <<unsecureRoute(<<"/", "api", "/", "users", "/", "a">>, "post"),
                  secureRoute(<<"/", "api", "/", "users", "/", "a">>, "get", "[]")>>
  /\ Len(routes[2]) = Len(reg.before) + 2

\* ---------------------------------------------------------------------
\* AbstractModule (adapt-authoring-core): setReady and onReady
\* ---------------------------------------------------------------------

\* the error init() fails with; the module itself is what onReady resolves to
InitError == ErrorOf(0)
Module == [truthy |-> TRUE, by |-> MaxObservers + 1]

\* the observer onReady taps on readyHook, called with the error of setReady
\* for the wait w: this._initError = error; error ? reject(error) : resolve(this)
readyObserver(M, w, error) ==
  [M EXCEPT !._initError = error,
            !.waits[w] = IF error.truthy THEN [state |-> "rejected", value |-> error]
                         ELSE [state |-> "resolved", value |-> Module]]

\* readyHook.invoke(error): a parallel hook calls its observers in turn
RECURSIVE invokeReadyHook(_, _, _)
invokeReadyHook(M, i, error) ==
  IF i > Len(M.readyHook) THEN M
  ELSE invokeReadyHook(readyObserver(M, M.readyHook[i], error), i + 1, error)

\* setReady(error)
setReady(M, error) ==
  IF M._isReady THEN M
  ELSE invokeReadyHook([M EXCEPT !._isReady = ~error.truthy, !._initError = error], 1, error)

\* onReady() for the wait w
onReady(M, w) ==
  IF M._isReady THEN [M EXCEPT !.waits[w] = [state |-> "resolved", value |-> Module]]
  ELSE IF M._initError.truthy
       THEN [M EXCEPT !.waits[w] = [state |-> "rejected", value |-> M._initError]]
       ELSE [M EXCEPT !.readyHook = Append(@, w),
                      !.waits[w] = [state |-> "pending", value |-> UndefinedValue]]

\* a caller asks for the ready signal
OnReady(w) ==
  /\ mod.waits[w].state = "none"
  /\ mod' = onReady(mod, w)
  /\ UNCHANGED notModVars

\* the constructor's init().then(() => this.setReady()).catch(e => this.setReady(e)):
\* init() returns, or fails with an Error or with a value that is not truthy
InitSettles(outcome) ==
  /\ mod.init = "pending"
  /\ mod' = setReady([mod EXCEPT !.init = outcome],
                     IF outcome = "failed" THEN InitError ELSE UndefinedValue)
  /\ UNCHANGED notModVars

ReadyInit ==
  /\ nRouters = 1
  /\ route = [n \in Nodes |-> IF n = 1 THEN <<"/", "api">> ELSE <<>>]
  /\ parentRouter = [n \in Nodes |-> ExpressApp]
  /\ childRouters = [n \in Nodes |-> <<>>]
  /\ routes = [n \in Nodes |-> <<>>]
  /\ routerMiddleware = [n \in Nodes |-> IF n = 1 THEN DefaultRouterMiddleware ELSE <<>>]
  /\ handlerMiddleware = [n \in Nodes |-> IF n = 1 THEN DefaultHandlerMiddleware ELSE <<>>]
  /\ initialised = [n \in Nodes |-> FALSE]
  /\ expressRouter = [n \in Nodes |-> <<>>]
  /\ expressApp = <<>>
  /\ ret = Ret("new", This)
  /\ initLog = <<>>
  /\ resp = NoResp
  /\ vrInput = DGet
  /\ vrResult = "none"
  /\ q = NoQuery
  /\ SendIdle
  /\ SrvIdle
  /\ HookIdle
  /\ ExIdle
  /\ RegIdle
  /\ mod = NewModule

ReadyNext ==
  \/ \E w \in WaitIds : OnReady(w)
  \/ \E outcome \in {"ok", "failed", "failedFalsy"} : InitSettles(outcome)

\* init() is an async function that settles
ReadySpec ==
  ReadyInit /\ [][ReadyNext]_vars
    /\ WF_vars(\E outcome \in {"ok", "failed", "failedFalsy"} : InitSettles(outcome))

\* C29: onReady() always settles, whenever it is called: it resolves with
\* the module if init() succeeded and rejects with the init error if init()
\* failed; a wait started after a failed init rejects and does not hang, and
\* all waits settle with the same outcome
C29_OnReadySettles ==
  /\ \A w \in WaitIds :
       (mod.waits[w].state = "pending") ~> (mod.waits[w].state \in {"resolved", "rejected"})
  /\ [](\A w \in WaitIds :
          /\ mod.waits[w].state = "resolved" => (mod.init = "ok" /\ mod.waits[w].value = Module)
          /\ mod.waits[w].state = "rejected" =>
               (mod.init \in {"failed", "failedFalsy"} /\ mod.waits[w].value = mod._initError)
          /\ mod.waits[w].state = "pending" => mod.init = "pending"
          /\ mod.init = "ok" => mod.waits[w].state # "rejected"
          /\ mod.init \in {"failed", "failedFalsy"} => mod.waits[w].state # "resolved")

(* ---------------------------- ServerModule ---------------------------- *)
\* this.root and this.api
Root == 1
Api == 2

\* ServerModule.init(): the fields it sets; start() waits for app.onReady()
Preload == [NoServer EXCEPT !.pc = "preload"]

\* a handler put on a native router or on the application with get() or use()
HandlerLayer(op, at, name) == Layer(op, at, 0, <<ChainFn(name)>>)

\* the calls of start(), in program order
startSteps ==
  <<"root.init", "get", "addMiddleware", "api.init",
    "apiNotFoundHandler", "rootNotFoundHandler", "genericErrorHandler", "listen">>

\* the position of start() after its call number k
AfterStep(k) ==
  IF k < Len(startSteps)
  THEN [srv EXCEPT !.step = k + 1]
  ELSE [srv EXCEPT !.step = 0, !.pc = "awaitListen"]

\* app.onReady().then(this.start.bind(this)): start() is called
Start ==
  /\ srv.pc = "preload"
  /\ srv' = [srv EXCEPT !.pc = "start", !.step = 1, !.started = "pending"]
  /\ UNCHANGED notSrvVars

\* start(): this.root.init() and this.api.init()
StartInitRouter(name, n) ==
  /\ srv.pc = "start"
  /\ startSteps[srv.step] = name
  /\ RouterInit(n)
  /\ srv' = AfterStep(srv.step)
  /\ UNCHANGED <<vrVars, qVars, errVars, hookVars, exVars, regVars, modVars>>

\* start(): this.api.expressRouter.get('/', mapHandler(this.api)) and the two
\* not-found handlers, each a call on a native router
StartRouterHandler(name, n, op, at, fn) ==
  /\ srv.pc = "start"
  /\ startSteps[srv.step] = name
  /\ expressRouter' = [expressRouter EXCEPT ![n] = Append(@, HandlerLayer(op, at, fn))]
  /\ srv' = AfterStep(srv.step)
  /\ UNCHANGED <<nRouters, route, parentRouter, childRouters, routes, routerMiddleware,
                 handlerMiddleware, initialised, expressApp, ret, initLog, resp>>
  /\ UNCHANGED <<vrVars, qVars, errVars, hookVars, exVars, regVars, modVars>>

\* start(): this.api.addMiddleware(ServerUtils.debugRequestTime)
StartAddMiddleware ==
  /\ srv.pc = "start"
  /\ startSteps[srv.step] = "addMiddleware"
  /\ routerMiddleware' =
       [routerMiddleware EXCEPT
          ![Api] = _addMiddleware(routerMiddleware[Api], <<"debugRequestTime">>)]
  /\ ret' = Ret("addMiddleware", This)
  /\ initLog' = <<>>
  /\ resp' = NoResp
  /\ srv' = AfterStep(srv.step)
  /\ UNCHANGED <<nRouters, route, parentRouter, childRouters, routes,
                 handlerMiddleware, initialised, expressRouter, expressApp>>
  /\ UNCHANGED <<vrVars, qVars, errVars, hookVars, exVars, regVars, modVars>>

\* start(): this.expressApp.use(ServerUtils.genericErrorHandler.bind(this))
StartErrorHandler ==
  /\ srv.pc = "start"
  /\ startSteps[srv.step] = "genericErrorHandler"
  /\ expressApp' = Append(expressApp, HandlerLayer("use", <<>>, "genericErrorHandler"))
  /\ srv' = AfterStep(srv.step)
  /\ UNCHANGED <<nRouters, route, parentRouter, childRouters, routes, routerMiddleware,
                 handlerMiddleware, initialised, expressRouter, ret, initLog, resp>>
  /\ UNCHANGED <<vrVars, qVars, errVars, hookVars, exVars, regVars, modVars>>

\* start(): await this.listen(); listen() calls expressApp.listen(port, host, cb)
\* and keeps the server it returns
Listen ==
  /\ srv.pc = "start"
  /\ startSteps[srv.step] = "listen"
  /\ srv' = [AfterStep(srv.step) EXCEPT !.httpServer = "binding"]
  /\ UNCHANGED notSrvVars

\* listen(): the callback of expressApp.listen, run when the server is
\* listening: this.console is undefined, so its first statement throws and
\* the statements after it do not run
Listening ==
  /\ srv.pc = "awaitListen"
  /\ srv.httpServer = "binding"
  /\ srv' = [srv EXCEPT !.pc = "done", !.httpServer = "listening", !.thrown = Threw]
  /\ UNCHANGED notSrvVars

\* listen(): .once('error', e => reject(SERVER_START)); start() rejects
ListenError ==
  /\ srv.pc = "awaitListen"
  /\ srv.httpServer = "binding"
  /\ srv' = [srv EXCEPT !.pc = "done", !.httpServer = "error", !.started = "rejected"]
  /\ UNCHANGED notSrvVars

\* after ServerModule.init(): the root router on the application, the API
\* router below it (not one of root.childRouters), no server yet
StartInit ==
  /\ nRouters = 2
  /\ route = [n \in Nodes |-> IF n = Root THEN <<"/">> ELSE IF n = Api THEN <<"api">> ELSE <<>>]
  /\ parentRouter = [n \in Nodes |-> IF n = Api THEN Root ELSE ExpressApp]
  /\ childRouters = [n \in Nodes |-> <<>>]
  /\ routes = [n \in Nodes |-> <<>>]
  /\ routerMiddleware = [n \in Nodes |-> IF n <= 2 THEN DefaultRouterMiddleware ELSE <<>>]
  /\ handlerMiddleware = [n \in Nodes |-> IF n <= 2 THEN DefaultHandlerMiddleware ELSE <<>>]
  /\ initialised = [n \in Nodes |-> FALSE]
  /\ expressRouter = [n \in Nodes |-> <<>>]
  /\ expressApp = <<>>
  /\ ret = Ret("new", This)
  /\ initLog = <<>>
  /\ resp = NoResp
  /\ vrInput = DGet
  /\ vrResult = "none"
  /\ q = NoQuery
  /\ SendIdle
  /\ ModIdle
  /\ RegIdle
  /\ ExIdle
  /\ HookIdle
  /\ srv = Preload

\* the other modules register on the tree while the application loads; then
\* start() runs its calls one after the other, and the server answers
StartNext ==
  \/ \E n \in Routers, r \in ChildRoutes :
       srv.pc = "preload" /\ CreateChildRouter(n, r) /\ UNCHANGED utilVars
  \/ \E n \in Routers, args \in SeqsUpTo(TreeDefs, MaxArgs) :
       srv.pc = "preload" /\ AddRoute(n, args) /\ UNCHANGED utilVars
  \/ \E n \in Routers, func \in SeqsUpTo(MiddlewareArgs, MaxArgs) :
       srv.pc = "preload" /\ AddMiddleware(n, func) /\ UNCHANGED utilVars
  \/ \E n \in Routers, func \in SeqsUpTo(MiddlewareArgs, MaxArgs) :
       srv.pc = "preload" /\ AddHandlerMiddleware(n, func) /\ UNCHANGED utilVars
  \/ Start
  \/ StartInitRouter("root.init", Root)
  \/ StartRouterHandler("get", Api, "get", <<"/">>, "mapHandler")
  \/ StartAddMiddleware
  \/ StartInitRouter("api.init", Api)
  \/ StartRouterHandler("apiNotFoundHandler", Api, "use", <<>>, "apiNotFoundHandler")
  \/ StartRouterHandler("rootNotFoundHandler", Root, "use", <<>>, "rootNotFoundHandler")
  \/ StartErrorHandler
  \/ Listen
  \/ Listening
  \/ ListenError

StartSpec == StartInit /\ [][StartNext]_vars

\* the routers are initialised and the three handlers are on their stacks
Installed ==
  /\ initialised[Root]
  /\ initialised[Api]
  /\ \E i \in 1..Len(expressRouter[Api]) :
       expressRouter[Api][i] = HandlerLayer("use", <<>>, "apiNotFoundHandler")
  /\ \E i \in 1..Len(expressRouter[Root]) :
       expressRouter[Root][i] = HandlerLayer("use", <<>>, "rootNotFoundHandler")
  /\ \E i \in 1..Len(expressApp) :
       expressApp[i] = HandlerLayer("use", <<>>, "genericErrorHandler")

\* the ordering alone: no server exists before everything is installed
ListenAfterInstalled ==
  (srv.httpServer # Undefined \/ srv.isListening) => Installed

C32_InitialisedSubtree ==
  /\ [](\A n \in Routers : initialised[n] => \A c \in Subtree(n) : initialised[c])
  /\ [][\A n \in Routers : initialised[n] => initialised'[n]]_vars
C32_Witness ==
  /\ ret = Ret("createChildRouter", This)
  /\ \E n \in Routers :
       /\ initialised[n]
       /\ Len(childRouters[n]) > 0
       /\ \A c \in Subtree(n) : initialised[c]

\* how often the native router of c was handed to use() of the native router of p
Mounts(p, c) ==
  Cardinality({i \in 1..Len(expressRouter[p]) :
                 expressRouter[p][i].op = "use" /\ expressRouter[p][i].router = c})

\* C33: after init() has been called on the root of a tree built with
\* createChildRouter, in any order relative to init() calls on descendants,
\* the native router of every descendant has been mounted on the native
\* router of its parent exactly once.
C33_MountedOnce ==
  \A n \in Routers :
    (parentRouter[n] = ExpressApp /\ initialised[n]) =>
      \A c \in Subtree(n) \ {n} : Mounts(parentRouter[c], c) = 1

(* ------------- the handlers of stored routes after init() ------------- *)
\* definitions whose handlers are functions, under the five methods init()
\* registers and under "all", another function of the native router
DAll == RouteDef(TRUE, <<"/", "c">>, TRUE, [m \in {"all"} |-> Single("h1")], FALSE)
DGetAll ==
  RouteDef(TRUE, <<"/", "d">>, TRUE,
           [m \in {"get", "all"} |-> IF m = "get" THEN Single("h1") ELSE Single("h2")],
           FALSE)
HandlerDefs == {DGet, DInternal, DArrayHandler, DStringHandler, DAll, DGetAll}

\* routes are added to the routers of a tree, and the routers are initialised
RoutesNext ==
  \/ \E n \in Routers, r \in ChildRoutes :
       CreateChildRouter(n, r) /\ UNCHANGED utilVars
  \/ \E n \in Routers, args \in SeqsUpTo(HandlerDefs, MaxArgs) :
       AddRoute(n, args) /\ UNCHANGED utilVars
  \/ \E n \in Routers :
       RouterInit(n) /\ UNCHANGED utilVars

RoutesSpec == Init /\ [][RoutesNext]_vars

\* the handler of route r for method m is on the native router of n
HandlerRegistered(n, r, m) ==
  \E k \in 1..Len(expressRouter[n]) :
    LET layer == expressRouter[n][k]
    IN  /\ layer.op = m
        /\ layer.path = r.route
        /\ layer.chain # <<>>
        /\ layer.chain[Len(layer.chain)] =
             [fn |-> "handler", cfg |-> NullDef, h |-> r.handlers[m]]

\* the same for the methods init() goes through only
FiveMethodsRegistered ==
  \A n \in Routers : initialised[n] =>
    \A i \in 1..Len(routes[n]) :
      \A m \in DOMAIN routes[n][i].handlers \cap HttpMethods :
        HandlerRegistered(n, routes[n][i], m)

\* C34: after init() of a router, for every stored route and every method
\* key of its handlers map, the handler of the route for that method has been
\* registered on the native router of the router for the path of the route:
\* no handler validateRoute accepted is left unregistered.
C34_HandlersRegistered ==
  \A n \in Routers : initialised[n] =>
    \A i \in 1..Len(routes[n]) :
      \A m \in DOMAIN routes[n][i].handlers :
        HandlerRegistered(n, routes[n][i], m)

\* C35: the method-not-allowed middleware never rejects a registered
\* endpoint: when the request path matches the pattern of a registered route
\* and the request method is among the methods registered for that route, it
\* calls next() with no error, also when several patterns match the path.
C35_RegisteredNotRejected ==
  q.op = "methodNotAllowedHandler" =>
    ((\E e \in MatchedEntries(q.node, q.arg.path) : toUpperCase(q.arg.method) \in e.methods)
       => q.result = <<NextNoArg>>)

\* the same for a request path that one registered pattern matches only
OnePatternNotRejected ==
  q.op = "methodNotAllowedHandler" =>
    LET matched == MatchedEntries(q.node, q.arg.path)
    IN  (Cardinality(matched) = 1 /\ \E e \in matched : toUpperCase(q.arg.method) \in e.methods)
          => q.result = <<NextNoArg>>

\* C36: sendError is history-independent: the status and body sent for an
\* error on a request are the same whatever errors were sent before, on this
\* or any other request, and sending an error does not modify the shared
\* error registry.
C36_SendErrorHistoryIndependent ==
  sent.op = "sendError" =>
    /\ sent.responses =
         sendError(sent.error, sent.hasTranslate, LoadedErrors).responses
    /\ errors = sent.before

\* the same for the errors sendError does not look up in the registry
AdaptErrorHistoryIndependent ==
  (sent.op = "sendError" /\ sent.error.kind = "AdaptError") =>
    /\ sent.responses =
         sendError(sent.error, sent.hasTranslate, LoadedErrors).responses
    /\ errors = sent.before

(* --------------- tap and untap while an invocation runs --------------- *)
\* an invocation is in flight: invoke() is waiting for its observers
InFlight == inv.pc \in {"series", "parallel"}

\* hook.tap(observer), called while invoke() is waiting
TapInFlight(o) ==
  /\ InFlight
  /\ o \notin Tapped
  /\ hookObservers' = IF IsFunction(o) THEN Append(hookObservers, Bound(o)) ELSE hookObservers
  /\ UNCHANGED <<hookOptions, promiseObservers, untapped, inv>>
  /\ UNCHANGED notHookVars

\* hook.untap(observer), called while invoke() is waiting
UntapInFlight(observer) ==
  /\ InFlight
  /\ LET i == indexOf(hookObservers, observer)
     IN  hookObservers' = IF i > 0 THEN splice1(hookObservers, i) ELSE hookObservers
  /\ UNCHANGED <<hookOptions, promiseObservers, untapped, inv>>
  /\ UNCHANGED notHookVars

\* a hook of any type with two observers tapped, not invoked yet
FlightInit ==
  /\ nRouters = 1
  /\ route = [n \in Nodes |-> IF n = 1 THEN <<"/", "api">> ELSE <<>>]
  /\ parentRouter = [n \in Nodes |-> ExpressApp]
  /\ childRouters = [n \in Nodes |-> <<>>]
  /\ routes = [n \in Nodes |-> <<>>]
  /\ routerMiddleware = [n \in Nodes |-> IF n = 1 THEN DefaultRouterMiddleware ELSE <<>>]
  /\ handlerMiddleware = [n \in Nodes |-> IF n = 1 THEN DefaultHandlerMiddleware ELSE <<>>]
  /\ initialised = [n \in Nodes |-> FALSE]
  /\ expressRouter = [n \in Nodes |-> <<>>]
  /\ expressApp = <<>>
  /\ ret = Ret("new", This)
  /\ initLog = <<>>
  /\ resp = NoResp
  /\ vrInput = DGet
  /\ vrResult = "none"
  /\ q = NoQuery
  /\ SendIdle
  /\ SrvIdle
  /\ ModIdle
  /\ RegIdle
  /\ ExIdle
  /\ hookOptions \in {Hook(opts) : opts \in HookOpts}
  /\ hookObservers = <<Bound(1), Bound(2)>>
  /\ promiseObservers = <<>>
  /\ untapped = {}
  /\ inv = NoInvocation

FlightNext ==
  \/ \E o \in 0..MaxObservers : TapInFlight(o)
  \/ \E observer \in Fns \cup {hookObservers[i] : i \in 1..Len(hookObservers)} :
       UntapInFlight(observer)
  \/ \E how \in {"async"} \cup Throws : InvokeSeries(how)
  \/ \E res \in {"return"} \cup Throws, how \in {"async"} \cup Throws : SeriesSettle(res, how)
  \/ \E thrower \in 0..MaxObservers, t \in Throws : InvokeParallel(thrower, t)
  \/ \E k \in ObserverIds, res \in {"return"} \cup Throws : ParallelSettle(k, res)

FlightSpec == FlightInit /\ [][FlightNext]_vars

\* the observers invoke() has called are observers registered at the call,
\* none of them twice, and all of them when no observer failed
RunsRegisteredOnce ==
  /\ \A i \in 1..Len(inv.started) :
       \E j \in 1..Len(inv.observers) : inv.started[i] = inv.observers[j]
  /\ NoDuplicates(inv.started)
  /\ (inv.pc = "done" /\ Failed = {}) => inv.started = inv.observers

\* C37: an invoke() call runs exactly the observers that were registered
\* when it was called, each exactly once: an observer added with tap() or
\* removed with untap() while the invocation is in flight neither joins nor
\* leaves it, and no registered observer is skipped or called twice, in
\* parallel and in series mode.
C37_InvocationSnapshot ==
  inv.pc # "idle" => RunsRegisteredOnce

\* the same for a parallel hook only
ParallelSnapshot ==
  (inv.pc # "idle" /\ hookOptions.type = "parallel") => RunsRegisteredOnce

(* ------------------------- ServerModule.close ------------------------- *)
\* close(), the part that runs at the call: it resolves when there is no
\* server; taps a new close() on listeningHook and leaves its own promise
\* alone when the server is not listening; else calls httpServer.close
close(S, w) ==
  IF S.httpServer = Undefined
  THEN [S EXCEPT !.closes[w] = [state |-> "resolved", at |-> S.httpServer]]
  ELSE IF ~S.isListening
  THEN [S EXCEPT !.closes[w] = [state |-> "pending", at |-> S.httpServer],
                 !.listeningHook = @ + 1]
  ELSE [S EXCEPT !.closes[w] = [state |-> "closing", at |-> S.httpServer],
                 !.serverCloses = @ + 1]

\* the callback of httpServer.close: httpServer = undefined, resolve()
httpServerClosed(S, w) ==
  [S EXCEPT !.httpServer = Undefined, !.closes[w].state = "resolved"]

\* a call of close(), at any time start() is not running
Close(w) ==
  /\ srv.pc \in {"preload", "awaitListen", "done"}
  /\ srv.closes[w].state = "none"
  /\ srv' = close(srv, w)
  /\ UNCHANGED notSrvVars

\* start() runs when the application is ready, the server answers, and
\* close() is called by whoever stops the application
CloseNext ==
  \/ Start
  \/ StartInitRouter("root.init", Root)
  \/ StartRouterHandler("get", Api, "get", <<"/">>, "mapHandler")
  \/ StartAddMiddleware
  \/ StartInitRouter("api.init", Api)
  \/ StartRouterHandler("apiNotFoundHandler", Api, "use", <<>>, "apiNotFoundHandler")
  \/ StartRouterHandler("rootNotFoundHandler", Root, "use", <<>>, "rootNotFoundHandler")
  \/ StartErrorHandler
  \/ Listen
  \/ Listening
  \/ ListenError
  \/ \E w \in CloseIds : Close(w)

\* everything but the calls of close() happens when it can
CloseSpec ==
  /\ StartInit
  /\ [][CloseNext]_vars
  /\ WF_vars(Start)
  /\ WF_vars(StartInitRouter("root.init", Root) \/ StartInitRouter("api.init", Api))
  /\ WF_vars(\/ StartRouterHandler("get", Api, "get", <<"/">>, "mapHandler")
             \/ StartRouterHandler("apiNotFoundHandler", Api, "use", <<>>, "apiNotFoundHandler")
             \/ StartRouterHandler("rootNotFoundHandler", Root, "use", <<>>, "rootNotFoundHandler"))
  /\ WF_vars(StartAddMiddleware)
  /\ WF_vars(StartErrorHandler)
  /\ WF_vars(Listen)
  /\ WF_vars(Listening \/ ListenError)

\* a close() called when no HTTP server exists resolves at once
ClosedAtOnce ==
  \A w \in CloseIds : srv.closes[w].at = Undefined => srv.closes[w].state = "resolved"

\* the calls of close() made so far
CloseCalls == Cardinality({w \in CloseIds : srv.closes[w].state # "none"})

\* C38: close() returns a promise that eventually resolves in every state:
\* at once when no HTTP server exists; once the server has closed, with
\* httpServer reset to undefined, when it is listening; and, when called
\* after listen() has started but before the server is listening, after the
\* server has begun listening and then been closed.  The server is closed at
\* most once per close() call.
C38_CloseResolves ==
  /\ \A w \in CloseIds :
       (srv.closes[w].state # "none") ~> (srv.closes[w].state = "resolved")
  /\ [](ClosedAtOnce /\ srv.serverCloses <= CloseCalls)

(* -------------------------- the tree shape ---------------------------- *)
\* the parent k steps above n (n itself for k = 0), ExpressApp above the top
RECURSIVE ParentAbove(_, _)
ParentAbove(n, k) ==
  IF k = 0 \/ ~IsRouter(n) THEN n ELSE ParentAbove(parentRouter[n], k - 1)

\* C39: in every state reachable through createChildRouter, addRoute,
\* addMiddleware and init the router structure is a tree: every c in
\* r.childRouters has r as its parentRouter, no router occurs twice in a
\* childRouters list or in two lists, and following parentRouter from any
\* router reaches a parent that is not a Router in finitely many steps.
C39_Tree ==
  /\ \A r \in Routers : \A i \in 1..Len(childRouters[r]) :
       /\ IsRouter(childRouters[r][i])
       /\ parentRouter[childRouters[r][i]] = r
  /\ \A r \in Routers : NoDuplicates(childRouters[r])
  /\ \A r1, r2 \in Routers :
       r1 # r2 => Range(childRouters[r1]) \cap Range(childRouters[r2]) = {}
  /\ \A n \in Routers : ~IsRouter(ParentAbove(n, nRouters))
C39_Witness ==
  /\ nRouters = 3
  /\ childRouters[1] = <<2>>
  /\ childRouters[2] = <<3>>
  /\ initialised[1]
  /\ ret.op = "addRoute"

====
